---------------------------- MODULE Spec2Model ----------------------------
(***************************************************************************)
(* download-shell: a routed tunnel between the host and a fresh network    *)
(* namespace (src/src/main.rs).  The module models                         *)
(*   - find_tunnel_ip_range, the tunnel address allocator (SpecAlloc);     *)
(*   - main(): the pre-fork setup, the fork, the child and parent arms     *)
(*     with their two semaphores, and the firewall cleanup (Spec);         *)
(*   - the firewall steps of two runs sharing the chains (SpecFw).         *)
(* A u32 is kept as <<hi, lo>>, two 16-bit halves, so that the 32-bit      *)
(* arithmetic of the allocator is computed at its real width.              *)
(***************************************************************************)
EXTENDS Integers, Sequences, FiniteSets, TLC

VARIABLES
    routes,              \* the kernel's route table, in the order the cache yields it
    build,               \* "debug" (overflow checks) or "release" (wrapping)
    tunnel_net_id,       \* outcome of find_tunnel_ip_range
    euid,                \* libc::geteuid()
    argv,                \* std::env::args() after the program name
    args,                \* the Args parse_args returns
    pcP,                 \* where the parent (the process main starts in) is
    pcC,                 \* where the child is; "none" before the fork
    exitP,               \* exit status of the parent, -1 while it runs
    exitC,               \* exit status of the child, -1 while it runs
    errP,                \* context of the error main returned in the parent
    reaped,              \* waitpid has returned for the child
    faultP,              \* a call of the parent failed that could have succeeded
    unshare_semaphore,   \* count of the semaphore, -1 before sem_init
    movelink_semaphore,  \* count of the semaphore, -1 before sem_init
    kernel,              \* links, addresses, routes and namespaces
    procfs,              \* the /proc/sys/net/ipv4 toggles
    chains,              \* the rules of filter/FORWARD and nat/POSTROUTING
    logP,                \* the calls the parent has made, in order
    logC,                \* the calls the child has made, in order
    rule_num,            \* clean_iptables: the rule number parsed from the listing
    fw,                  \* SpecFw: the firewall steps of each run
    conv                 \* SpecAddr: the addresses being converted and the results

allocVars == <<routes, build, tunnel_net_id>>
inputVars == <<euid, argv, args>>
procVars == <<pcP, pcC, exitP, exitC, errP, reaped, faultP>>
semVars == <<unshare_semaphore, movelink_semaphore>>
envVars == <<kernel, procfs, chains>>
logVars == <<logP, logC>>

vars == <<routes, build, tunnel_net_id, euid, argv, args, pcP, pcC, exitP, exitC, errP, reaped, faultP, unshare_semaphore, movelink_semaphore, kernel, procfs, chains, logP, logC, rule_num, fw, conv>>

-----------------------------------------------------------------------------
(* Bounds of the model *)

\* longest route snapshot handed to the allocator
MaxRoutes == 3

\* most rules of other origin a chain holds when a run starts
MaxForeign == 1

-----------------------------------------------------------------------------
(* 32-bit unsigned arithmetic on <<hi, lo>> *)

Half == 256 * 256

RECURSIVE Pow2(_)
Pow2(n) == IF n = 0 THEN 1 ELSE 2 * Pow2(n - 1)

RECURSIVE And16(_, _)
And16(x, y) ==
    IF x = 0 \/ y = 0 THEN 0
    ELSE (x % 2) * (y % 2) + 2 * And16(x \div 2, y \div 2)

\* u32 & u32
BitAnd(a, b) == <<And16(a[1], b[1]), And16(a[2], b[2])>>

\* u32::overflowing_shr(n).0 : the shift amount is taken modulo 32
overflowing_shr(a, n) ==
    LET s == n % 32 IN
    IF s >= 16 THEN <<0, a[1] \div Pow2(s - 16)>>
    ELSE <<a[1] \div Pow2(s),
           (a[2] \div Pow2(s)) + (a[1] % Pow2(s)) * Pow2(16 - s)>>

\* u32::overflowing_shl(n).0 : the shift amount is taken modulo 32
overflowing_shl(a, n) ==
    LET s == n % 32 IN
    IF s >= 16 THEN <<(a[2] * Pow2(s - 16)) % Half, 0>>
    ELSE <<((a[1] * Pow2(s)) % Half) + (a[2] \div Pow2(16 - s)),
           (a[2] * Pow2(s)) % Half>>

\* a + b on u32: the wrapped sum and whether it overflowed
AddU32(a, b) ==
    LET lo == a[2] + b[2]
        hi == a[1] + b[1] + (lo \div Half)
    IN  [val |-> <<hi % Half, lo % Half>>, overflow |-> hi >= Half]

LessU32(a, b) == a[1] < b[1] \/ (a[1] = b[1] /\ a[2] < b[2])

AllOnes == <<65535, 65535>>
One == <<0, 1>>

\* Ipv4Addr::new(a, b, c, d) as a u32
Ipv4(a, b, c, d) == <<a * 256 + b, c * 256 + d>>

\* 0xFFF00000 and 0xAC100000
RangeMask == <<65520, 0>>
RangeNet == <<44048, 0>>

-----------------------------------------------------------------------------
(* Routes of a snapshot: Route::dst() is None (has_dst = FALSE) or an Addr *)
(* of len bytes (4 for IPv4) with its prefix length cidrlen.               *)

RouteTo(addr, p) == [has_dst |-> TRUE, len |-> 4, addr |-> addr, cidrlen |-> p]
NoDstRoute == [has_dst |-> FALSE, len |-> 0, addr |-> <<0, 0>>, cidrlen |-> 0]
\* a destination that is not 4 bytes long (TryFrom<&Addr> for Ipv4Addr fails)
NonV4Route == [has_dst |-> TRUE, len |-> 16, addr |-> <<0, 0>>, cidrlen |-> 64]
DefaultRoute == RouteTo(Ipv4(0, 0, 0, 0), 0)

\* the i-th /30 block of 172.16.0.0/12, i < 64
Block30(i) == RouteTo(Ipv4(172, 16, 0, 4 * i), 30)

\* The routes snapshots are drawn from.  The kernel only holds routes whose
\* destination has no bit set below its prefix length, and so does this set.
RouteUniverse ==
    { NoDstRoute, NonV4Route, DefaultRoute,
      RouteTo(Ipv4(172, 0, 0, 0), 8),
      RouteTo(Ipv4(172, 16, 0, 0), 13),
      RouteTo(Ipv4(172, 24, 0, 0), 13),
      RouteTo(Ipv4(172, 16, 0, 0), 31),
      RouteTo(Ipv4(172, 16, 0, 0), 32) }
    \cup { Block30(i) : i \in 0 .. (MaxRoutes - 1) }

RECURSIVE SeqsUpTo(_, _)
SeqsUpTo(S, n) ==
    IF n = 0 THEN { <<>> }
    ELSE LET shorter == SeqsUpTo(S, n - 1)
         IN  shorter \cup { Append(s, x) : s \in { t \in shorter : Len(t) = n - 1 }, x \in S }

Snapshots == SeqsUpTo(RouteUniverse, MaxRoutes)

-----------------------------------------------------------------------------
(* find_tunnel_ip_range *)

\* the sort key: dst() converted to Option<u32>; None when there is no
\* destination or it is not an IPv4 address
SortKey(r) ==
    IF r.has_dst /\ r.len = 4 THEN [some |-> TRUE, v |-> r.addr]
    ELSE [some |-> FALSE, v |-> <<0, 0>>]

\* Option<u32>::partial_cmp(..) == Less : None sorts before every Some
KeyLess(k1, k2) ==
    \/ ~k1.some /\ k2.some
    \/ k1.some /\ k2.some /\ LessU32(k1.v, k2.v)

\* Vec::sort_by is stable: an element stays behind the elements it does not
\* compare Less than
RECURSIVE InsertSorted(_, _)
InsertSorted(s, r) ==
    IF s = <<>> THEN <<r>>
    ELSE LET last == s[Len(s)] IN
         IF KeyLess(SortKey(r), SortKey(last))
         THEN Append(InsertSorted(SubSeq(s, 1, Len(s) - 1), r), last)
         ELSE Append(s, r)

RECURSIVE SortFrom(_, _)
SortFrom(done, rest) ==
    IF rest = <<>> THEN done
    ELSE SortFrom(InsertSorted(done, Head(rest)), Tail(rest))

sort_by(rs) == SortFrom(<<>>, rs)

\* a loop without the test of the destination against 172.16.0.0/12
ConsideredAnyRange(r) ==
    /\ r.has_dst
    /\ r.cidrlen # 0
    /\ r.len = 4

\* the routes the loop does not `continue` past
Considered(r) ==
    /\ r.has_dst
    /\ r.cidrlen # 0
    /\ r.len = 4
    /\ BitAnd(r.addr, RangeMask) = RangeNet

mask(cidrlen) ==
    overflowing_shl(overflowing_shr(AllOnes, 32 - cidrlen), 32 - cidrlen)

\* 0xFFFFFFFFu32.overflowing_shr(cidrlen).0 + 1
next_net_half(cidrlen) == AddU32(overflowing_shr(AllOnes, cidrlen + 1), One)

next_net(cidrlen) == AddU32(overflowing_shr(AllOnes, cidrlen), One)

Alloc(st, ip) == [st |-> st, ip |-> ip]
Pending == Alloc("pending", <<0, 0>>)

\* one iteration of the loop body on the candidate `cur`; an overflowing `+`
\* panics in a build with overflow checks and wraps in one without
LoopBody(cur, r, b) ==
    IF cur.st # "ok" \/ ~Considered(r) THEN cur
    ELSE IF BitAnd(r.addr, mask(r.cidrlen)) # BitAnd(cur.ip, mask(r.cidrlen)) THEN cur
    ELSE LET nn == next_net(r.cidrlen)
             sum == AddU32(r.addr, nn.val)
         IN  IF b = "debug" /\ (nn.overflow \/ sum.overflow)
             THEN Alloc("panic", <<0, 0>>)
             ELSE Alloc("ok", sum.val)

RECURSIVE Scan(_, _, _)
Scan(cur, rs, b) ==
    IF rs = <<>> THEN cur ELSE Scan(LoopBody(cur, Head(rs), b), Tail(rs), b)

\* the final check: the candidate must still be inside 172.16.0.0/12
EscapeCheck(cur) ==
    IF cur.st = "ok" /\ BitAnd(cur.ip, RangeMask) # RangeNet
    THEN Alloc("err", <<0, 0>>)
    ELSE cur

find_tunnel_ip_range(rs, b) ==
    EscapeCheck(Scan(Alloc("ok", Ipv4(172, 16, 0, 0)), sort_by(rs), b))

-----------------------------------------------------------------------------
(* parse_args *)

NoIp == <<>>

\* a parse that makes an address of every word
ParseIpv4Lenient(word) ==
    IF word = "203.0.113.5" THEN [ok |-> TRUE, ip |-> Ipv4(203, 0, 113, 5)]
    ELSE [ok |-> TRUE, ip |-> Ipv4(0, 0, 0, 0)]

\* str::parse::<Ipv4Addr>() on the argument words the model uses: only a
\* dotted quad parses
ParseIpv4(word) ==
    IF word = "203.0.113.5" THEN [ok |-> TRUE, ip |-> Ipv4(203, 0, 113, 5)]
    ELSE [ok |-> FALSE, ip |-> NoIp]

Args(program, program_args, source_ip) ==
    [program |-> program, program_args |-> program_args, source_ip |-> source_ip]

\* the while loop over the remaining arguments, source_ip being what it has
\* been set to so far
RECURSIVE ParseLoop(_, _)
ParseLoop(rest, source_ip) ==
    IF rest = <<>> THEN Args("/bin/sh", <<"/bin/sh">>, source_ip)
    ELSE IF Head(rest) \in {"-s", "--source-ip"}
         THEN IF Tail(rest) = <<>> THEN ParseLoop(<<>>, source_ip)
              ELSE LET parsed == ParseIpv4(rest[2])
                   IN  ParseLoop(Tail(Tail(rest)),
                                 IF parsed.ok THEN parsed.ip ELSE source_ip)
         ELSE Args(Head(rest), rest, source_ip)

parse_args(av) == ParseLoop(av, NoIp)

\* what the loop prints to stderr on its way: a line for each flag whose
\* value does not parse, a line for a flag that is the last word
RECURSIVE ParseReports(_)
ParseReports(rest) ==
    IF rest = <<>> THEN <<>>
    ELSE IF Head(rest) \in {"-s", "--source-ip"}
         THEN IF Tail(rest) = <<>> THEN <<"Error: source IP address not provided">>
              ELSE (IF ParseIpv4(rest[2]).ok THEN <<>>
                    ELSE <<"Error parsing source IP address">>)
                       \o ParseReports(Tail(Tail(rest)))
         ELSE <<>>

\* the argument lists a run is started with
ArgvSet ==
    { <<>>,
      <<"-s", "203.0.113.5">>,
      <<"--source-ip", "203.0.113.5", "curl", "-s">>,
      <<"-s", "bogus", "curl">>,
      <<"curl", "-s", "203.0.113.5">>,
      <<"-s">> }

-----------------------------------------------------------------------------
(* The firewall tool: rules, and the text of a listing.  A line of text is *)
(* a sequence of characters; a word no step looks inside is kept whole.    *)

Chains == {"FORWARD", "POSTROUTING"}
TableOf(chain) == IF chain = "FORWARD" THEN "filter" ELSE "nat"

DigitChars == <<"0", "1", "2", "3", "4", "5", "6", "7", "8", "9">>

\* format!("{n}")
RECURSIVE Digits(_)
Digits(n) ==
    IF n < 10 THEN <<DigitChars[n + 1]>>
    ELSE Append(Digits(n \div 10), DigitChars[(n % 10) + 1])

\* format!("dlsh{}", libc::getpid())
firewall_comment(pid) == <<"dlsh">> \o Digits(pid)

FwRule(target, src, oif, to, comment) ==
    [target |-> target, src |-> src, oif |-> oif, to |-> to, comment |-> comment]

\* iptables -A ... -m comment --comment <comment>
AppendRule(rules, rule) == Append(rules, rule)

\* iptables -D <chain> <n>: the tool fails, changing nothing, when the chain
\* has no rule of that number
DeleteKeepsRule(rules, n) == rules

\* a delete that counts the rules from 0
DeleteRuleFromZero(rules, n) ==
    IF n \in 2 .. (Len(rules) + 1)
    THEN SubSeq(rules, 1, n - 2) \o SubSeq(rules, n, Len(rules))
    ELSE rules

DeleteRule(rules, n) ==
    IF n \in 1 .. Len(rules)
    THEN SubSeq(rules, 1, n - 1) \o SubSeq(rules, n + 1, Len(rules))
    ELSE rules

CommentText(rule) ==
    IF rule.comment = <<>> THEN <<>>
    ELSE <<" ", "/*", " ">> \o rule.comment \o <<" ", "*/">>

\* one rule of iptables --line-numbers -vn -L: its number, its target, the
\* columns no step reads left out, and its comment
ListLine(n, rule) == Digits(n) \o <<" ", rule.target>> \o CommentText(rule)

\* the stdout of a successful listing: two header lines, then the rules
ListOutput(chain, rules) ==
    << <<"Chain", " ", chain>>, <<"num", " ", "target">> >>
        \o [i \in 1 .. Len(rules) |-> ListLine(i, rules[i])]

\* the stdout of a tool that prints the rules without their numbers
UnnumberedOutput(chain, rules) ==
    << <<"Chain", " ", chain>>, <<"target">> >>
        \o [i \in 1 .. Len(rules) |-> <<rules[i].target>> \o CommentText(rules[i])]

\* str::contains
Contains(line, pat) ==
    \E i \in 0 .. (Len(line) - Len(pat)) : SubSeq(line, i + 1, i + Len(pat)) = pat

\* a pattern that is the comment alone
CommentPatternBare(comment) == comment

\* format!("/* {firewall_comment} */")
CommentPatternOpen(comment) == <<"/*", " ">> \o comment

CommentPattern(comment) == <<"/*", " ">> \o comment \o <<" ", "*/">>

\* a search that keeps the last matching line
FindLastRuleLine(lines, comment) ==
    LET hits == { i \in DOMAIN lines : Contains(lines[i], CommentPattern(comment)) }
    IN  IF hits = {} THEN 0 ELSE CHOOSE i \in hits : \A j \in hits : i >= j

\* output_utf8.lines().find(|l| l.contains(..)): the index of the first
\* matching line, 0 when there is none
FindRuleLine(lines, comment) ==
    LET hits == { i \in DOMAIN lines : Contains(lines[i], CommentPattern(comment)) }
    IN  IF hits = {} THEN 0 ELSE CHOOSE i \in hits : \A j \in hits : i <= j

\* split_ascii_whitespace().next(): the first run of characters other than
\* a blank, empty when the line has none
RECURSIVE FirstToken(_)
FirstToken(line) ==
    IF line = <<>> THEN <<>>
    ELSE IF Head(line) = " " THEN FirstToken(Tail(line))
    ELSE LET blanks == { i \in DOMAIN line : line[i] = " " }
         IN  IF blanks = {} THEN line
             ELSE SubSeq(line, 1, (CHOOSE i \in blanks : \A j \in blanks : i <= j) - 1)

DigitValue(c) == CHOOSE d \in 0 .. 9 : DigitChars[d + 1] = c

RECURSIVE DecimalValue(_)
DecimalValue(tok) ==
    IF tok = <<>> THEN 0
    ELSE 10 * DecimalValue(SubSeq(tok, 1, Len(tok) - 1)) + DigitValue(tok[Len(tok)])

\* str::parse::<u16>()
ParseU16(tok) ==
    IF /\ tok # <<>>
       /\ Len(tok) <= 5
       /\ \A i \in DOMAIN tok : \E d \in 0 .. 9 : DigitChars[d + 1] = tok[i]
       /\ DecimalValue(tok) <= 65535
    THEN [ok |-> TRUE, val |-> DecimalValue(tok)]
    ELSE [ok |-> FALSE, val |-> 0]

\* what clean_iptables makes of the stdout of the listing: "none" (no line
\* carries the comment), "unparsable" (the line's first token is no u16) or
\* "found" with the rule number
ReadListing(lines, comment) ==
    LET at == FindRuleLine(lines, comment) IN
    IF at = 0 THEN [res |-> "none", num |-> 0]
    ELSE LET n == ParseU16(FirstToken(lines[at])) IN
         IF n.ok THEN [res |-> "found", num |-> n.val]
         ELSE [res |-> "unparsable", num |-> 0]

\* The stdout an invocation of the listing can produce: the listing itself,
\* nothing (the tool ran and failed), or the rules without their numbers.
ListingStdouts(chain, rules) ==
    { ListOutput(chain, rules), <<>>, UnnumberedOutput(chain, rules) }

\* the rules of a chain that carry the comment
Tagged(rules, comment) == { i \in DOMAIN rules : rules[i].comment = comment }

-----------------------------------------------------------------------------
(* nl::route::Addr, the generic address, and its conversions.  An Ipv4Addr  *)
(* is its four octets; an Addr is what libnl holds for it: the family, the  *)
(* length in bytes, the bytes and the prefix length.  NullAddr is an Addr   *)
(* whose pointer nl_addr_parse has left null.                               *)

NlAddr(family, bytes, prefixlen) ==
    [null |-> FALSE, family |-> family, len |-> Len(bytes), bytes |-> bytes,
     prefixlen |-> prefixlen]
NullAddr == [null |-> TRUE, family |-> "", len |-> 0, bytes |-> <<>>, prefixlen |-> 0]

\* format!("{value}"): the four octets in decimal, dots between them
FormatIpv4(value) ==
    Digits(value[1]) \o <<".">> \o Digits(value[2]) \o <<".">>
        \o Digits(value[3]) \o <<".">> \o Digits(value[4])

\* the text cut at its dots
RECURSIVE SplitDots(_)
SplitDots(text) ==
    LET dots == { i \in DOMAIN text : text[i] = "." } IN
    IF dots = {} THEN <<text>>
    ELSE LET d == CHOOSE i \in dots : \A j \in dots : i <= j
         IN  <<SubSeq(text, 1, d - 1)>> \o SplitDots(SubSeq(text, d + 1, Len(text)))

\* one part of a dotted quad as inet_pton reads it: one to three decimal
\* digits, no zero in front of another digit, at most 255
OctetOk(tok) ==
    /\ Len(tok) \in 1 .. 3
    /\ \A i \in DOMAIN tok : \E d \in 0 .. 9 : DigitChars[d + 1] = tok[i]
    /\ Len(tok) > 1 => tok[1] # "0"
    /\ DecimalValue(tok) <= 255

\* nl_addr_parse(text, AF_INET, &mut addr): the text is read as a dotted
\* quad; addr is left null when it is none
nl_addr_parse(text) ==
    LET parts == SplitDots(text) IN
    IF Len(parts) = 4 /\ \A i \in 1 .. 4 : OctetOk(parts[i])
    THEN NlAddr("AF_INET", [i \in 1 .. 4 |-> DecimalValue(parts[i])], 32)
    ELSE NullAddr

\* impl From<Ipv4Addr> for Addr
Addr_from(value) == nl_addr_parse(FormatIpv4(value))

\* impl TryFrom<&Addr> for Ipv4Addr, accepting every Addr of four bytes or more
Ipv4Addr_try_from_long(value) ==
    IF value.len < 4 THEN [st |-> "err", ip |-> "NL_AF_MISMATCH"]
    ELSE [st |-> "ok", ip |-> <<value.bytes[1], value.bytes[2], value.bytes[3], value.bytes[4]>>]

\* impl TryFrom<&Addr> for Ipv4Addr: Err(NL_AF_MISMATCH) unless len() is 4
Ipv4Addr_try_from(value) ==
    IF value.len # 4 THEN [st |-> "err", ip |-> "NL_AF_MISMATCH"]
    ELSE [st |-> "ok", ip |-> <<value.bytes[1], value.bytes[2], value.bytes[3], value.bytes[4]>>]

\* nothing converted yet: the results are pending
ConvIdle == [ip |-> <<>>, addr |-> NullAddr, back |-> [st |-> "pending", ip |-> <<>>],
             kaddr |-> NullAddr, kback |-> [st |-> "pending", ip |-> <<>>]]

-----------------------------------------------------------------------------
(* main(): the state it starts from *)

\* the process ids of the runs the model follows; the digits of the first
\* are a prefix of the digits of the second
RunPids == {12, 123}
getpid == CHOOSE p \in RunPids : \A q \in RunPids : p <= q
OtherPid == CHOOSE p \in RunPids : p # getpid

\* rules a chain holds before the run starts: none of them carries the
\* run's comment
ForeignRules ==
    { FwRule("DROP", NoIp, "", NoIp, <<>>),
      FwRule("ACCEPT", NoIp, "", NoIp, firewall_comment(OtherPid)) }

\* route tables main() is run against
MainSnapshots ==
    { <<DefaultRoute>>,
      <<Block30(0), DefaultRoute>>,
      <<DefaultRoute, RouteTo(Ipv4(172, 16, 0, 0), 32)>>,
      <<Block30(0)>>,
      <<RouteTo(Ipv4(172, 16, 0, 0), 13), DefaultRoute, RouteTo(Ipv4(172, 24, 0, 0), 13)>> }

KernelInit ==
    [ veth |-> FALSE, host_up |-> FALSE, host_addr |-> NoIp, host_brd |-> NoIp,
      host_prefixlen |-> 0, host_route |-> NoIp, child_ns |-> FALSE, peer_ns |-> "host",
      lo_up |-> FALSE, peer_up |-> FALSE, peer_addr |-> NoIp, peer_brd |-> NoIp,
      peer_prefixlen |-> 0, child_gw |-> NoIp ]

ProcfsInit == [ip_forward |-> "0", proxy_arp_all |-> "0", proxy_arp_if |-> "0"]

NoArgs == Args("", <<>>, NoIp)

FwRun(pc) == [pc |-> pc, rule_num |-> 0, round |-> 0, warned |-> 0, deleted |-> 0, res |-> "ok"]
FwIdle == [p \in RunPids |-> FwRun("idle")]

Init ==
    /\ routes \in MainSnapshots
    /\ build \in {"debug", "release"}
    /\ tunnel_net_id = Pending
    /\ euid \in {0, 1000}
    /\ argv \in ArgvSet
    /\ args = NoArgs
    /\ pcP = "root_check"
    /\ pcC = "none"
    /\ exitP = -1
    /\ exitC = -1
    /\ errP = ""
    /\ reaped = FALSE
    /\ faultP = FALSE
    /\ unshare_semaphore = -1
    /\ movelink_semaphore = -1
    /\ kernel = KernelInit
    /\ procfs = ProcfsInit
    /\ \E pre \in SeqsUpTo(ForeignRules, MaxForeign) : chains = [c \in Chains |-> pre]
    /\ logP = <<>>
    /\ logC = <<>>
    /\ rule_num = 0
    /\ fw = FwIdle
    /\ conv = ConvIdle

\* the tunnel addresses main() derives from tunnel_net_id
host_tunnel_ip == AddU32(tunnel_net_id.ip, <<0, 1>>).val
\* a container address that is the host's
container_tunnel_ip_host == AddU32(tunnel_net_id.ip, <<0, 1>>).val
container_tunnel_ip == AddU32(tunnel_net_id.ip, <<0, 2>>).val
tunnel_broadcast_ip == AddU32(tunnel_net_id.ip, <<0, 3>>).val

\* a call as the logs record it: the operation, what it acts on, the netlink
\* socket it goes through and the snapshot its link handle comes from
\* ("pre": made before the fork, "post": made by the child after unshare)
\* and how it ended: "ok", "err" (an error came back) or "failed" (the tool
\* ran, failed and nobody looked)
Call(op, arg, sock, obj) == [op |-> op, arg |-> arg, sock |-> sock, obj |-> obj, res |-> "ok"]
Failed(c) == [c EXCEPT !.res = "err"]
Unnoticed(c) == [c EXCEPT !.res = "failed"]

-----------------------------------------------------------------------------
(* main(): the steps of the parent up to the fork *)

childVars == <<pcC, exitC, logC>>

\* the parent moves on from `from` to `to`, having made call `c`
PStep(from, to, c) ==
    /\ pcP = from
    /\ pcP' = to
    /\ logP' = Append(logP, c)
    /\ UNCHANGED <<exitP, errP, faultP>>

\* the same, the call having failed without the parent taking notice
PUnnoticed(from, to, c) ==
    /\ pcP = from
    /\ pcP' = to
    /\ logP' = Append(logP, Unnoticed(c))
    /\ faultP' = TRUE
    /\ UNCHANGED <<exitP, errP>>

\* call `c` fails and `?` returns the error from main: exit status 1.
\* `injected` tells a failure the environment chose from one that follows
\* from the state the call was made in
PErr(from, ctx, c, injected) ==
    /\ pcP = from
    /\ pcP' = "exited"
    /\ exitP' = 1
    /\ errP' = ctx
    /\ faultP' = (faultP \/ injected)
    /\ logP' = Append(logP, Failed(c))

\* a call that either succeeds or fails by the environment's choice
PTry(from, to, ctx, c) == PStep(from, to, c) \/ PErr(from, ctx, c, TRUE)

\* a root check that prints its message and goes on
RootCheckWarns ==
    /\ pcP = "root_check"
    /\ pcP' = "parse_args"
    /\ logP' = Append(logP, Call("geteuid", "", "", ""))
    /\ UNCHANGED <<exitP, errP>>
    /\ UNCHANGED <<allocVars, inputVars, childVars, reaped, faultP, semVars, envVars, rule_num, fw, conv>>

\* if libc::geteuid() != 0 { eprintln!(..); std::process::exit(1) }
RootCheck ==
    /\ pcP = "root_check"
    /\ IF euid # 0
       THEN /\ pcP' = "exited"
            /\ exitP' = 1
            /\ errP' = "This program needs to be run as root"
       ELSE /\ pcP' = "parse_args"
            /\ UNCHANGED <<exitP, errP>>
    /\ logP' = Append(logP, Call("geteuid", "", "", ""))
    /\ UNCHANGED <<allocVars, inputVars, childVars, reaped, faultP, semVars, envVars, rule_num, fw, conv>>

ParseArgs ==
    /\ PStep("parse_args", "socket_new", Call("parse_args", "", "", ParseReports(argv)))
    /\ args' = parse_args(argv)
    /\ UNCHANGED <<allocVars, euid, argv, childVars, reaped, semVars, envVars, rule_num, fw, conv>>

-----------------------------------------------------------------------------
(* The netlink wrappers main() calls.  `ret` is what the libnl function     *)
(* returns: 0 when the kernel has done what was asked, a negative error     *)
(* code when it has not.                                                    *)

NlRets == {-1, 0}

\* Socket::new: nl_connect; if ret < 0 { return Err(..) }
Socket_new(ret) == IF ret < 0 THEN "err" ELSE "ok"

\* Socket::get_routes: rtnl_route_alloc_cache
Socket_get_routes(ret) == IF ret < 0 THEN "err" ELSE "ok"

\* Socket::get_links: rtnl_link_alloc_cache
Socket_get_links(ret) == IF ret < 0 THEN "err" ELSE "ok"

\* Link::add: rtnl_link_add
Link_add(ret) == IF ret < 0 THEN "err" ELSE "ok"

\* a wrapper that drops libnl's answer
Link_change_unchecked(ret) == "ok"

\* Link::change: rtnl_link_change
Link_change(ret) == IF ret < 0 THEN "err" ELSE "ok"

\* RtAddr::add and Route::add are called by main() and return a Result it
\* applies `?` to; their bodies are not among the source files.  They are
\* taken to do as Link::add does: Err exactly when libnl's answer is negative.
RtAddr_add(ret) == IF ret < 0 THEN "err" ELSE "ok"
Route_add(ret) == IF ret < 0 THEN "err" ELSE "ok"

\* the call as the log keeps it: failed when the kernel's answer was negative
KCall(ret, c) == IF ret < 0 THEN Failed(c) ELSE c

\* `wrapper(..).context(ctx)?` : main goes on when the wrapper returned Ok
\* and returns the error when it returned Err
PCall(res, from, to, ctx, c) ==
    IF res = "ok" THEN PStep(from, to, c) ELSE PErr(from, ctx, c, TRUE)

SocketNew ==
    /\ \E ret \in NlRets :
          PCall(Socket_new(ret), "socket_new", "get_routes", "Could not allocate Netlink socket",
                KCall(ret, Call("nl_connect", "", "pre", "")))
    /\ UNCHANGED <<allocVars, inputVars, childVars, reaped, semVars, envVars, rule_num, fw, conv>>

GetRoutes ==
    /\ \E ret \in NlRets :
          PCall(Socket_get_routes(ret), "get_routes", "find_tunnel_ip_range",
                "Could not initially load routes", KCall(ret, Call("get_routes", "", "pre", "")))
    /\ UNCHANGED <<allocVars, inputVars, childVars, reaped, semVars, envVars, rule_num, fw, conv>>

FindTunnelIpRange ==
    /\ pcP = "find_tunnel_ip_range"
    /\ tunnel_net_id' = find_tunnel_ip_range(routes, build)
    /\ logP' = Append(logP, Call("find_tunnel_ip_range", "", "", ""))
    /\ CASE tunnel_net_id'.st = "ok" ->
                pcP' = "veth_add" /\ UNCHANGED <<exitP, errP>>
         [] tunnel_net_id'.st = "err" ->
                /\ pcP' = "exited"
                /\ exitP' = 1
                /\ errP' = "Unable to find a tunnel IP address"
         [] OTHER ->
                /\ pcP' = "exited"
                /\ exitP' = 101
                /\ errP' = "panic: attempt to add with overflow"
    /\ UNCHANGED <<routes, build, inputVars, childVars, reaped, faultP, semVars, envVars, rule_num, fw, conv>>

\* link.add(&nl_sock, NLM_F_CREATE | NLM_F_EXCL)
VethAdd ==
    /\ \E ret \in NlRets :
          /\ PCall(Link_add(ret), "veth_add", "get_links", "internal libnl error",
                   KCall(ret, Call("link_add", "veth", "pre", "")))
          /\ kernel' = IF ret < 0 THEN kernel ELSE [kernel EXCEPT !.veth = TRUE]
    /\ UNCHANGED <<allocVars, inputVars, childVars, reaped, semVars, procfs, chains, rule_num, fw, conv>>

\* get_links, then the host and the peer link looked up by name
GetLinks ==
    /\ \E ret \in NlRets :
          PCall(Socket_get_links(ret), "get_links", "host_link_up",
                "Could not acquire link list for adding veth device",
                KCall(ret, Call("get_links", "", "pre", "")))
    /\ UNCHANGED <<allocVars, inputVars, childVars, reaped, semVars, envVars, rule_num, fw, conv>>

HostLinkUp ==
    /\ \E ret \in NlRets :
          /\ PCall(Link_change(ret), "host_link_up", "host_addr_add",
                   "Could not set downloader interface to be up",
                   KCall(ret, Call("link_change_up", "host_link", "pre", "pre")))
          /\ kernel' = IF ret < 0 THEN kernel ELSE [kernel EXCEPT !.host_up = TRUE]
    /\ UNCHANGED <<allocVars, inputVars, childVars, reaped, semVars, procfs, chains, rule_num, fw, conv>>

HostAddrAdd ==
    /\ \E ret \in NlRets :
          /\ PCall(RtAddr_add(ret), "host_addr_add", "default_if",
                   "Could not add the IP address to the host tunnel interface",
                   KCall(ret, Call("addr_add", "host_link", "pre", "pre")))
          /\ kernel' = IF ret < 0 THEN kernel
                       ELSE [kernel EXCEPT !.host_addr = host_tunnel_ip,
                                           !.host_brd = tunnel_broadcast_ip,
                                           !.host_prefixlen = 30]
    /\ UNCHANGED <<allocVars, inputVars, childVars, reaped, semVars, procfs, chains, rule_num, fw, conv>>

\* the snapshot holds a route whose destination has prefix length 0
HasDefaultRoute(rs) == \E i \in DOMAIN rs : rs[i].has_dst /\ rs[i].cidrlen = 0

DefaultIf ==
    /\ IF HasDefaultRoute(routes)
       THEN PTry("default_if", "ip_forward",
                 "Could not find the interface associated with the default route",
                 Call("default_if", "", "", "pre"))
       ELSE PErr("default_if", "Could not find the default route",
                 Call("default_if", "", "", "pre"), FALSE)
    /\ UNCHANGED <<allocVars, inputVars, childVars, reaped, semVars, envVars, rule_num, fw, conv>>

IpForward ==
    /\ \/ /\ PStep("ip_forward", "nat_rule", Call("write", "ip_forward", "", ""))
          /\ procfs' = [procfs EXCEPT !.ip_forward = "1"]
       \/ /\ PErr("ip_forward", "could not enable IP forwarding",
                  Call("write", "ip_forward", "", ""), TRUE)
          /\ UNCHANGED procfs
    /\ UNCHANGED <<allocVars, inputVars, childVars, reaped, semVars, kernel, chains, rule_num, fw, conv>>

\* the interface of the default route's first next hop
default_if == "ext0"

\* Command::new("iptables")...output()?: an error only when the tool cannot
\* be launched.  The tool's exit status is not looked at: a tool that ran
\* and failed has installed nothing and main goes on.
IptablesAppend(from, to, ctx, chain, rule) ==
    \/ /\ PStep(from, to, Call("iptables -A", chain, "", rule.target))
       /\ chains' = [chains EXCEPT ![chain] = AppendRule(@, rule)]
    \/ /\ PUnnoticed(from, to, Call("iptables -A", chain, "", rule.target))
       /\ UNCHANGED chains
    \/ /\ PErr(from, ctx, Call("iptables -A", chain, "", rule.target), TRUE)
       /\ UNCHANGED chains

MasqueradeRule == FwRule("MASQUERADE", NoIp, default_if, NoIp, firewall_comment(getpid))
\* -s and --to-source with their values exchanged
SnatRuleSwapped == FwRule("SNAT", args.source_ip, "", container_tunnel_ip, firewall_comment(getpid))
SnatRule == FwRule("SNAT", container_tunnel_ip, "", args.source_ip, firewall_comment(getpid))
ForwardAcceptRule == FwRule("ACCEPT", container_tunnel_ip, "", NoIp, firewall_comment(getpid))

\* a match whose None arm runs on into the steps of the Some arm
NatRuleFallsThrough ==
    /\ IF args.source_ip = NoIp
       THEN IptablesAppend("nat_rule", "proxy_arp_all", "Could not create the MASQUERADE rule",
                           "POSTROUTING", MasqueradeRule)
       ELSE IptablesAppend("nat_rule", "proxy_arp_all", "Could not create source NAT rule",
                           "POSTROUTING", SnatRule)
    /\ UNCHANGED <<allocVars, inputVars, childVars, reaped, semVars, kernel, procfs, rule_num, fw, conv>>

\* match &args.source_ip { None => MASQUERADE, Some(ip) => SNAT ... }
NatRule ==
    /\ IF args.source_ip = NoIp
       THEN IptablesAppend("nat_rule", "forward_rule", "Could not create the MASQUERADE rule",
                           "POSTROUTING", MasqueradeRule)
       ELSE IptablesAppend("nat_rule", "proxy_arp_all", "Could not create source NAT rule",
                           "POSTROUTING", SnatRule)
    /\ UNCHANGED <<allocVars, inputVars, childVars, reaped, semVars, kernel, procfs, rule_num, fw, conv>>

ProxyArpAll ==
    /\ \/ /\ PStep("proxy_arp_all", "proxy_arp_if", Call("write", "all/proxy_arp", "", ""))
          /\ procfs' = [procfs EXCEPT !.proxy_arp_all = "1"]
       \/ /\ PErr("proxy_arp_all", "could not enable proxy_arp",
                  Call("write", "all/proxy_arp", "", ""), TRUE)
          /\ UNCHANGED procfs
    /\ UNCHANGED <<allocVars, inputVars, childVars, reaped, semVars, kernel, chains, rule_num, fw, conv>>

ProxyArpIf ==
    /\ \/ /\ PStep("proxy_arp_if", "host_route_add", Call("write", "if/proxy_arp", "", ""))
          /\ procfs' = [procfs EXCEPT !.proxy_arp_if = "1"]
       \/ /\ PErr("proxy_arp_if", "could not enable proxy arp for interface",
                  Call("write", "if/proxy_arp", "", ""), TRUE)
          /\ UNCHANGED procfs
    /\ UNCHANGED <<allocVars, inputVars, childVars, reaped, semVars, kernel, chains, rule_num, fw, conv>>

\* ip route add <source ip>/32 dev <host link>
HostRouteAdd ==
    /\ \E ret \in NlRets :
          /\ PCall(Route_add(ret), "host_route_add", "forward_rule", "internal libnl error",
                   KCall(ret, Call("route_add", "host_link", "pre", "pre")))
          /\ kernel' = IF ret < 0 THEN kernel ELSE [kernel EXCEPT !.host_route = args.source_ip]
    /\ UNCHANGED <<allocVars, inputVars, childVars, reaped, semVars, procfs, chains, rule_num, fw, conv>>

ForwardRule ==
    /\ IptablesAppend("forward_rule", "sem_init_unshare",
                      "could not add firewall rule to allow traffic forwarding",
                      "FORWARD", ForwardAcceptRule)
    /\ UNCHANGED <<allocVars, inputVars, childVars, reaped, semVars, kernel, procfs, rule_num, fw, conv>>

\* the values the semaphores are given by sem_init
UnshareInitial == 0
MovelinkInitial == 1

SemInitUnshare ==
    /\ \/ /\ PStep("sem_init_unshare", "sem_init_movelink", Call("sem_init", "unshare", "", ""))
          /\ unshare_semaphore' = UnshareInitial
       \/ /\ PErr("sem_init_unshare", "could not initialize the semaphore for unshare",
                  Call("sem_init", "unshare", "", ""), TRUE)
          /\ UNCHANGED unshare_semaphore
    /\ UNCHANGED <<allocVars, inputVars, childVars, reaped, movelink_semaphore, envVars, rule_num, fw, conv>>

SemInitMovelink ==
    /\ \/ /\ PStep("sem_init_movelink", "fork", Call("sem_init", "movelink", "", ""))
          /\ movelink_semaphore' = MovelinkInitial
       \/ /\ PErr("sem_init_movelink", "could not initialize the semaphore for moving links",
                  Call("sem_init", "movelink", "", ""), TRUE)
          /\ UNCHANGED movelink_semaphore
    /\ UNCHANGED <<allocVars, inputVars, childVars, reaped, unshare_semaphore, envVars, rule_num, fw, conv>>

\* libc::fork(): a negative result exits with status 3; otherwise the child
\* starts in its arm of the match and the parent in its own
\* a fork whose error arm falls into the cleanup at the end of main
ForkErrorCleansUp ==
    /\ pcP = "fork"
    /\ \/ /\ pcP' = "clean_filter_list"
          /\ logP' = Append(logP, Failed(Call("fork", "", "", "")))
          /\ faultP' = TRUE
          /\ UNCHANGED <<pcC, exitP, errP>>
       \/ /\ pcP' = "sem_wait_unshare"
          /\ logP' = Append(logP, Call("fork", "", "", ""))
          /\ pcC' = "drop_sock"
          /\ UNCHANGED <<exitP, errP, faultP>>
    /\ UNCHANGED <<allocVars, inputVars, exitC, logC, reaped, semVars, envVars, rule_num, fw, conv>>

\* libc::fork(): a negative result prints "Error forking!" and exits with 3
Fork ==
    /\ pcP = "fork"
    /\ \/ /\ pcP' = "exited"
          /\ logP' = Append(logP, Failed(Call("fork", "", "", "")))
          /\ exitP' = 3
          /\ errP' = "Error forking!"
          /\ faultP' = TRUE
          /\ UNCHANGED pcC
       \/ /\ pcP' = "sem_wait_unshare"
          /\ logP' = Append(logP, Call("fork", "", "", ""))
          /\ pcC' = "drop_sock"
          /\ UNCHANGED <<exitP, errP, faultP>>
    /\ UNCHANGED <<allocVars, inputVars, exitC, logC, reaped, semVars, envVars, rule_num, fw, conv>>

-----------------------------------------------------------------------------
(* main(): the parent after the fork *)

ChildAlive == pcC \notin {"none", "exited"}

\* a parent that takes the semaphore without waiting for a count
ParentSemWaitNoBlock ==
    /\ PTry("sem_wait_unshare", "move_link", "parent: could not wait for unshare",
            Call("sem_wait", "unshare", "", ""))
    /\ UNCHANGED <<allocVars, inputVars, childVars, reaped, semVars, envVars, rule_num, fw, conv>>

\* sem_wait(unshare_semaphore): blocks while the count is 0
ParentSemWait ==
    /\ \/ /\ unshare_semaphore > 0
          /\ PStep("sem_wait_unshare", "move_link", Call("sem_wait", "unshare", "", ""))
          /\ unshare_semaphore' = unshare_semaphore - 1
       \/ /\ PErr("sem_wait_unshare", "parent: could not wait for unshare",
                  Call("sem_wait", "unshare", "", ""), TRUE)
          /\ UNCHANGED unshare_semaphore
    /\ UNCHANGED <<allocVars, inputVars, childVars, reaped, movelink_semaphore, envVars, rule_num, fw, conv>>

\* changes.set_ns_pid(child); container_link.change(&nl_sock, &changes): the
\* kernel finds the namespace through the process, so the child must still
\* be running
MoveLink ==
    /\ \/ /\ ChildAlive
          /\ PStep("move_link", "sem_post_movelink", Call("link_set_ns_pid", "container_link", "pre", "pre"))
          /\ kernel' = [kernel EXCEPT !.peer_ns = IF kernel.child_ns THEN "child" ELSE "host"]
       \/ /\ PErr("move_link", "parent: could not move device to namespace",
                  Call("link_set_ns_pid", "container_link", "pre", "pre"), ChildAlive)
          /\ UNCHANGED kernel
    /\ UNCHANGED <<allocVars, inputVars, childVars, reaped, semVars, procfs, chains, rule_num, fw, conv>>

ParentSemPost ==
    /\ \/ /\ PStep("sem_post_movelink", "waitpid", Call("sem_post", "movelink", "", ""))
          /\ movelink_semaphore' = movelink_semaphore + 1
       \/ /\ PErr("sem_post_movelink", "parent: could not signal device move",
                  Call("sem_post", "movelink", "", ""), TRUE)
          /\ UNCHANGED movelink_semaphore
    /\ UNCHANGED <<allocVars, inputVars, childVars, reaped, unshare_semaphore, envVars, rule_num, fw, conv>>

\* a parent that returns the child's failure as its own, past the cleanup
WaitpidGated ==
    /\ pcC = "exited"
    /\ pcP = "waitpid"
    /\ pcP' = IF exitC = 0 THEN "kill" ELSE "exited"
    /\ exitP' = IF exitC = 0 THEN exitP ELSE exitC
    /\ logP' = Append(logP, Call("waitpid", "", "", ""))
    /\ reaped' = TRUE
    /\ UNCHANGED <<errP, faultP>>
    /\ UNCHANGED <<allocVars, inputVars, childVars, semVars, envVars, rule_num, fw, conv>>

\* libc::waitpid(child, &mut status, 0): returns once the child has exited;
\* neither its result nor status is read afterwards
Waitpid ==
    /\ pcC = "exited"
    /\ PStep("waitpid", "kill", Call("waitpid", "", "", ""))
    /\ reaped' = TRUE
    /\ UNCHANGED <<allocVars, inputVars, childVars, semVars, envVars, rule_num, fw, conv>>

\* libc::kill(child, SIGKILL): ends the child if it is still running
Kill ==
    /\ PStep("kill", "clean_filter_list", Call("kill", IF ChildAlive THEN "alive" ELSE "gone", "", ""))
    /\ IF ChildAlive
       THEN pcC' = "exited" /\ exitC' = 137
       ELSE UNCHANGED <<pcC, exitC>>
    /\ UNCHANGED <<allocVars, inputVars, logC, reaped, semVars, envVars, rule_num, fw, conv>>

-----------------------------------------------------------------------------
(* main(): clean_iptables and its two calls *)

\* The listing of clean_iptables(table, chain) for the run's comment, up to
\* the rule number: Command::output()? fails when the tool cannot be
\* launched; no line carrying the comment is a warning and Ok(()); a first
\* token that is no u16 is an error.
ListRules(chain, from, toDelete, toNext, ctx) ==
    \/ /\ PErr(from, ctx, Call("iptables -L", chain, "", ""), TRUE)
       /\ UNCHANGED rule_num
    \/ \E stdout \in ListingStdouts(chain, chains[chain]) :
          LET read == ReadListing(stdout, firewall_comment(getpid))
              listing == IF stdout = <<>> THEN Unnoticed(Call("iptables -L", chain, "", ""))
                         ELSE Call("iptables -L", chain, "", "")
          IN
          /\ pcP = from
          /\ faultP' = (faultP \/ stdout # ListOutput(chain, chains[chain]))
          /\ CASE read.res = "found" ->
                     /\ pcP' = toDelete
                     /\ rule_num' = read.num
                     /\ logP' = Append(logP, listing)
                     /\ UNCHANGED <<exitP, errP>>
               [] read.res = "none" ->
                     /\ pcP' = toNext
                     /\ logP' = logP \o <<listing, Call("warning", chain, "", "")>>
                     /\ UNCHANGED <<exitP, errP, rule_num>>
               [] OTHER ->
                     /\ pcP' = "exited"
                     /\ exitP' = 1
                     /\ errP' = ctx
                     /\ logP' = Append(logP, listing)
                     /\ UNCHANGED rule_num

\* iptables -t <table> -D <chain> <rule_num>: again only a tool that cannot
\* be launched is an error
DeleteListed(chain, from, to, ctx) ==
    \/ /\ PStep(from, to, Call("iptables -D", chain, "", ""))
       /\ chains' = [chains EXCEPT ![chain] = DeleteRule(@, rule_num)]
    \/ /\ PUnnoticed(from, to, Call("iptables -D", chain, "", ""))
       /\ UNCHANGED chains
    \/ /\ PErr(from, ctx, Call("iptables -D", chain, "", ""), TRUE)
       /\ UNCHANGED chains

CleanFilterList ==
    /\ ListRules("FORWARD", "clean_filter_list", "clean_filter_delete", "clean_nat_list",
                 "could not clear filter rule")
    /\ UNCHANGED <<allocVars, inputVars, childVars, reaped, semVars, envVars, fw, conv>>

CleanFilterDelete ==
    /\ DeleteListed("FORWARD", "clean_filter_delete", "clean_nat_list", "could not clear filter rule")
    /\ UNCHANGED <<allocVars, inputVars, childVars, reaped, semVars, kernel, procfs, rule_num, fw, conv>>

CleanNatList ==
    /\ ListRules("POSTROUTING", "clean_nat_list", "clean_nat_delete", "return_ok",
                 "could not clear NAT rule")
    /\ UNCHANGED <<allocVars, inputVars, childVars, reaped, semVars, envVars, fw, conv>>

CleanNatDelete ==
    /\ DeleteListed("POSTROUTING", "clean_nat_delete", "return_ok", "could not clear NAT rule")
    /\ UNCHANGED <<allocVars, inputVars, childVars, reaped, semVars, kernel, procfs, rule_num, fw, conv>>

\* a return that puts the toggles back to what they were
ReturnOkRestores ==
    /\ pcP = "return_ok"
    /\ pcP' = "exited"
    /\ exitP' = 0
    /\ procfs' = ProcfsInit
    /\ UNCHANGED <<allocVars, inputVars, childVars, errP, reaped, faultP, semVars, kernel, chains, logVars, rule_num, fw, conv>>

\* Ok(()) at the end of main
ReturnOk ==
    /\ pcP = "return_ok"
    /\ pcP' = "exited"
    /\ exitP' = 0
    /\ UNCHANGED <<allocVars, inputVars, childVars, errP, reaped, faultP, semVars, envVars, logVars, rule_num, fw, conv>>

-----------------------------------------------------------------------------
(* main(): the child *)

parentVars == <<pcP, exitP, errP, reaped, faultP, logP, rule_num>>

CStep(from, to, c) ==
    /\ pcC = from
    /\ pcC' = to
    /\ logC' = Append(logC, c)
    /\ UNCHANGED exitC

\* `?` returns the error from main in the child: exit status 1
CErr(from, c) ==
    /\ pcC = from
    /\ pcC' = "exited"
    /\ exitC' = 1
    /\ logC' = Append(logC, Failed(c))

CTry(from, to, c) == CStep(from, to, c) \/ CErr(from, c)

\* a child that goes on whatever the wrapper returned
CCallGoesOn(res, from, to, c) == CStep(from, to, c)

\* `wrapper(..).context(..)?` in the child
CCall(res, from, to, c) == IF res = "ok" THEN CStep(from, to, c) ELSE CErr(from, c)

ChildDropSock ==
    /\ CStep("drop_sock", "unshare", Call("nl_close", "", "pre", ""))
    /\ UNCHANGED <<allocVars, inputVars, parentVars, semVars, envVars, fw, conv>>

\* a child that prints the failure of unshare and goes on
ChildUnshareGoesOn ==
    /\ \/ /\ CStep("unshare", "sem_post_unshare", Call("unshare", "", "", ""))
          /\ kernel' = [kernel EXCEPT !.child_ns = TRUE]
       \/ /\ CStep("unshare", "sem_post_unshare", Failed(Call("unshare", "", "", "")))
          /\ UNCHANGED kernel
    /\ UNCHANGED <<allocVars, inputVars, parentVars, semVars, procfs, chains, fw, conv>>

\* libc::unshare(CLONE_NEWNS | CLONE_NEWNET): a negative result exits with
\* status 2
ChildUnshare ==
    /\ \/ /\ CStep("unshare", "sem_post_unshare", Call("unshare", "", "", ""))
          /\ kernel' = [kernel EXCEPT !.child_ns = TRUE]
       \/ /\ pcC = "unshare"
          /\ pcC' = "exited"
          /\ exitC' = 2
          /\ logC' = Append(logC, Failed(Call("unshare", "", "", "")))
          /\ UNCHANGED kernel
    /\ UNCHANGED <<allocVars, inputVars, parentVars, semVars, procfs, chains, fw, conv>>

ChildSemPost ==
    /\ \/ /\ CStep("sem_post_unshare", "sem_wait_movelink", Call("sem_post", "unshare", "", ""))
          /\ unshare_semaphore' = unshare_semaphore + 1
       \/ /\ CErr("sem_post_unshare", Call("sem_post", "unshare", "", ""))
          /\ UNCHANGED unshare_semaphore
    /\ UNCHANGED <<allocVars, inputVars, parentVars, movelink_semaphore, envVars, fw, conv>>

\* sem_wait(movelink_semaphore): blocks while the count is 0
ChildSemWait ==
    /\ \/ /\ movelink_semaphore > 0
          /\ CStep("sem_wait_movelink", "c_socket_new", Call("sem_wait", "movelink", "", ""))
          /\ movelink_semaphore' = movelink_semaphore - 1
       \/ /\ CErr("sem_wait_movelink", Call("sem_wait", "movelink", "", ""))
          /\ UNCHANGED movelink_semaphore
    /\ UNCHANGED <<allocVars, inputVars, parentVars, unshare_semaphore, envVars, fw, conv>>

ChildSocketNew ==
    /\ \E ret \in NlRets :
          CCall(Socket_new(ret), "c_socket_new", "c_get_links",
                KCall(ret, Call("nl_connect", "", "post", "")))
    /\ UNCHANGED <<allocVars, inputVars, parentVars, semVars, envVars, fw, conv>>

ChildGetLinks ==
    /\ \E ret \in NlRets :
          CCall(Socket_get_links(ret), "c_get_links", "lo_up",
                KCall(ret, Call("get_links", "", "post", "")))
    /\ UNCHANGED <<allocVars, inputVars, parentVars, semVars, envVars, fw, conv>>

ChildLoUp ==
    /\ \E ret \in NlRets :
          /\ CCall(Link_change(ret), "lo_up", "container_link_up",
                   KCall(ret, Call("link_change_up", "lo", "post", "post")))
          /\ kernel' = IF ret < 0 THEN kernel ELSE [kernel EXCEPT !.lo_up = TRUE]
    /\ UNCHANGED <<allocVars, inputVars, parentVars, semVars, procfs, chains, fw, conv>>

\* container_link.change(&nl_sock, &set_interface_up): container_link is the
\* handle taken before the fork; the kernel only finds the link once it is
\* in the child's namespace
ChildLinkUp ==
    /\ \E ret \in NlRets :
          /\ ret = 0 => kernel.peer_ns = "child"
          /\ CCall(Link_change(ret), "container_link_up", "c_addr_add",
                   KCall(ret, Call("link_change_up", "container_link", "post", "pre")))
          /\ kernel' = IF ret < 0 THEN kernel ELSE [kernel EXCEPT !.peer_up = TRUE]
    /\ UNCHANGED <<allocVars, inputVars, parentVars, semVars, procfs, chains, fw, conv>>

ChildAddrAdd ==
    /\ \E ret \in NlRets :
          /\ ret = 0 => kernel.peer_ns = "child"
          /\ CCall(RtAddr_add(ret), "c_addr_add", "c_route_add",
                   KCall(ret, Call("addr_add", "container_link", "post", "pre")))
          /\ kernel' = IF ret < 0 THEN kernel
                       ELSE [kernel EXCEPT !.peer_addr = container_tunnel_ip,
                                           !.peer_brd = tunnel_broadcast_ip,
                                           !.peer_prefixlen = 30]
    /\ UNCHANGED <<allocVars, inputVars, parentVars, semVars, procfs, chains, fw, conv>>

\* ip route add default via <host tunnel address>
ChildRouteAdd ==
    /\ \E ret \in NlRets :
          /\ ret = 0 => kernel.peer_ns = "child"
          /\ CCall(Route_add(ret), "c_route_add", "execve",
                   KCall(ret, Call("route_add", "container_link", "post", "pre")))
          /\ kernel' = IF ret < 0 THEN kernel ELSE [kernel EXCEPT !.child_gw = host_tunnel_ip]
    /\ UNCHANGED <<allocVars, inputVars, parentVars, semVars, procfs, chains, fw, conv>>

\* a child that, execve having failed, goes through the cleanup of FORWARD
ChildExecveCleansUp ==
    /\ \/ /\ CStep("execve", "running", Call("execve", args.program, "", ""))
          /\ UNCHANGED chains
       \/ /\ pcC = "execve"
          /\ pcC' = "exited"
          /\ exitC' = 1
          /\ logC' = logC \o <<Failed(Call("execve", args.program, "", "")),
                                Call("iptables -L", "FORWARD", "", ""),
                                Call("iptables -D", "FORWARD", "", "")>>
          /\ chains' = [chains EXCEPT !["FORWARD"] =
                            DeleteRule(@, ReadListing(ListOutput("FORWARD", @),
                                                      firewall_comment(getpid)).num)]
    /\ UNCHANGED <<allocVars, inputVars, parentVars, semVars, kernel, procfs, fw, conv>>

\* libc::execve: on success the program runs in place of the child
ChildExecve ==
    /\ CTry("execve", "running", Call("execve", args.program, "", ""))
    /\ UNCHANGED <<allocVars, inputVars, parentVars, semVars, envVars, fw, conv>>

\* the program exits with a status of its own
ProgramExit ==
    /\ pcC = "running"
    /\ pcC' = "exited"
    /\ exitC' \in {0, 1}
    /\ UNCHANGED <<allocVars, inputVars, parentVars, logC, semVars, envVars, fw, conv>>

ParentNext ==
    \/ RootCheck \/ ParseArgs \/ SocketNew \/ GetRoutes \/ FindTunnelIpRange
    \/ VethAdd \/ GetLinks \/ HostLinkUp \/ HostAddrAdd \/ DefaultIf \/ IpForward
    \/ NatRule \/ ProxyArpAll \/ ProxyArpIf \/ HostRouteAdd \/ ForwardRule
    \/ SemInitUnshare \/ SemInitMovelink \/ Fork
    \/ ParentSemWait \/ MoveLink \/ ParentSemPost \/ Waitpid \/ Kill
    \/ CleanFilterList \/ CleanFilterDelete \/ CleanNatList \/ CleanNatDelete \/ ReturnOk

ChildNext ==
    \/ ChildDropSock \/ ChildUnshare \/ ChildSemPost \/ ChildSemWait
    \/ ChildSocketNew \/ ChildGetLinks \/ ChildLoUp \/ ChildLinkUp
    \/ ChildAddrAdd \/ ChildRouteAdd \/ ChildExecve \/ ProgramExit

Next == ParentNext \/ ChildNext

Spec == Init /\ [][Next]_vars

-----------------------------------------------------------------------------
(* SpecAlloc: the allocator applied to every snapshot of the bounded set *)

\* everything but the allocator's input and output at rest
MainAtRest ==
    /\ euid = 0
    /\ argv = <<>>
    /\ args = NoArgs
    /\ pcP = "none"
    /\ pcC = "none"
    /\ exitP = -1
    /\ exitC = -1
    /\ errP = ""
    /\ reaped = FALSE
    /\ faultP = FALSE
    /\ unshare_semaphore = -1
    /\ movelink_semaphore = -1
    /\ kernel = KernelInit
    /\ procfs = ProcfsInit
    /\ logP = <<>>
    /\ logC = <<>>
    /\ rule_num = 0

InitAlloc ==
    /\ routes \in Snapshots
    /\ build \in {"debug", "release"}
    /\ tunnel_net_id = Pending
    /\ MainAtRest
    /\ chains = [c \in Chains |-> <<>>]
    /\ fw = FwIdle
    /\ conv = ConvIdle

Allocate ==
    /\ tunnel_net_id = Pending
    /\ tunnel_net_id' = find_tunnel_ip_range(routes, build)
    /\ UNCHANGED <<routes, build, inputVars, procVars, semVars, envVars, logVars, rule_num, fw, conv>>

NextAlloc == Allocate

SpecAlloc == InitAlloc /\ [][NextAlloc]_vars

-----------------------------------------------------------------------------
(* The firewall steps of two runs of main() on the same host: each run     *)
(* appends its NAT rule and its FORWARD rule under its own comment, and    *)
(* later goes through clean_iptables for FORWARD and then POSTROUTING.     *)
(* The runs share the chains and nothing else; their steps interleave      *)
(* freely.  The tool itself works here: a listing prints the chain as it   *)
(* is, a delete removes the rule of the number it is given.                *)

\* how many times a run goes through its two clean_iptables calls
MaxCleanups == 2

UntaggedRules == { r \in ForeignRules : r.comment = <<>> }

InitFw ==
    /\ routes = <<>>
    /\ build = "release"
    /\ tunnel_net_id = Pending
    /\ MainAtRest
    /\ chains \in [Chains -> SeqsUpTo(UntaggedRules, MaxForeign)]
    /\ fw = [p \in RunPids |-> FwRun("nat_rule")]
    /\ conv = ConvIdle

FwUnchanged == UNCHANGED <<allocVars, inputVars, procVars, semVars, kernel, procfs, logVars, rule_num, conv>>

\* iptables -t nat -A POSTROUTING ... -j MASQUERADE -m comment --comment dlsh<pid>
FwNatRule(p) ==
    /\ fw[p].pc = "nat_rule"
    /\ chains' = [chains EXCEPT !["POSTROUTING"] =
                      AppendRule(@, FwRule("MASQUERADE", NoIp, default_if, NoIp, firewall_comment(p)))]
    /\ fw' = [fw EXCEPT ![p].pc = "forward_rule"]
    /\ FwUnchanged

\* iptables -A FORWARD ... -j ACCEPT -m comment --comment dlsh<pid>
FwForwardRule(p) ==
    /\ fw[p].pc = "forward_rule"
    /\ chains' = [chains EXCEPT !["FORWARD"] =
                      AppendRule(@, FwRule("ACCEPT", NoIp, "", NoIp, firewall_comment(p)))]
    /\ fw' = [fw EXCEPT ![p].pc = "list_FORWARD", ![p].round = 1]
    /\ FwUnchanged

\* where a run goes when it is through with a chain
FwAfter(chain) == IF chain = "FORWARD" THEN "list_POSTROUTING" ELSE "cleaned"

\* clean_iptables, first half: list the chain, look for the comment, parse
\* the rule number; a missing line is a warning, a bad number an error
FwList(p, chain) ==
    LET read == ReadListing(ListOutput(chain, chains[chain]), firewall_comment(p)) IN
    /\ fw[p].pc = "list_" \o chain
    /\ fw' = [fw EXCEPT ![p] =
                 CASE read.res = "found" -> [@ EXCEPT !.pc = "delete_" \o chain, !.rule_num = read.num]
                   [] read.res = "none"  -> [@ EXCEPT !.pc = FwAfter(chain), !.warned = @ + 1]
                   [] OTHER              -> [@ EXCEPT !.pc = "cleaned", !.res = "err"]]
    /\ UNCHANGED chains
    /\ FwUnchanged

\* clean_iptables, second half: delete the rule that has the number now
FwDelete(p, chain) ==
    /\ fw[p].pc = "delete_" \o chain
    /\ chains' = [chains EXCEPT ![chain] = DeleteRule(@, fw[p].rule_num)]
    /\ fw' = [fw EXCEPT ![p].pc = FwAfter(chain), ![p].deleted = @ + 1]
    /\ FwUnchanged

\* the two clean_iptables calls are gone through once more
FwAgain(p) ==
    /\ fw[p].pc = "cleaned"
    /\ fw[p].res = "ok"
    /\ fw[p].round < MaxCleanups
    /\ fw' = [fw EXCEPT ![p] = [@ EXCEPT !.pc = "list_FORWARD", !.round = @ + 1,
                                         !.warned = 0, !.deleted = 0]]
    /\ UNCHANGED chains
    /\ FwUnchanged

NextFw ==
    \E p \in RunPids :
        \/ FwNatRule(p)
        \/ FwForwardRule(p)
        \/ \E chain \in Chains : FwList(p, chain) \/ FwDelete(p, chain)
        \/ FwAgain(p)

SpecFw == InitFw /\ [][NextFw]_vars

-----------------------------------------------------------------------------
(* SpecFwLeft: the same steps of the two runs, on chains that hold what     *)
(* earlier runs have left behind: rules with the comment of a run whose     *)
(* process id has come round again, and rules with the comment of runs of   *)
(* other process ids.                                                       *)

\* process ids of earlier runs: their digits begin or end those of a run
LeftoverPids == {1, 2, 23}

\* a rule an earlier run of process id q has not removed
LeftoverRule(q) == FwRule("ACCEPT", NoIp, "", NoIp, firewall_comment(q))

InitFwLeft ==
    /\ routes = <<>>
    /\ build = "release"
    /\ tunnel_net_id = Pending
    /\ MainAtRest
    /\ \E pre \in SeqsUpTo(UntaggedRules \cup { LeftoverRule(q) : q \in RunPids \cup LeftoverPids },
                           MaxForeign) :
          chains = [c \in Chains |-> pre]
    /\ fw = [p \in RunPids |-> FwRun("nat_rule")]
    /\ conv = ConvIdle

SpecFwLeft == InitFwLeft /\ [][NextFw]_vars

-----------------------------------------------------------------------------
(* SpecAddr: an Ipv4Addr is converted to an Addr and back, and an Addr the  *)
(* kernel has handed out is converted to an Ipv4Addr                        *)

\* the Ipv4Addr values converted: every quad of these octets
Ipv4Values ==
    LET octets == {0, 7, 10, 16, 172, 255}
    IN  { <<a, b, c, d>> : a \in octets, b \in octets, c \in octets, d \in octets }

\* addresses of links and routes: a hardware address of six bytes, IPv4
\* addresses, an IPv6 address, and the empty destination of a default route
KernelAddrs ==
    { NlAddr("AF_LLC", <<2, 0, 172, 16, 0, 1>>, 48),
      NlAddr("AF_INET", <<172, 16, 0, 4>>, 30),
      NlAddr("AF_INET", <<10, 0, 0, 255>>, 32),
      NlAddr("AF_INET6", <<254, 128, 0, 0, 0, 0, 0, 0, 0, 0, 0, 0, 0, 0, 0, 1>>, 64),
      NlAddr("AF_INET", <<>>, 0) }

InitAddr ==
    /\ routes = <<>>
    /\ build = "release"
    /\ tunnel_net_id = Pending
    /\ MainAtRest
    /\ chains = [c \in Chains |-> <<>>]
    /\ fw = FwIdle
    /\ \E value \in Ipv4Values, k \in KernelAddrs :
          conv = [ConvIdle EXCEPT !.ip = value, !.kaddr = k]

\* nl::route::Addr::from(ip)
AddrFromIpv4 ==
    /\ conv.addr = NullAddr
    /\ conv' = [conv EXCEPT !.addr = Addr_from(conv.ip)]
    /\ UNCHANGED <<allocVars, inputVars, procVars, semVars, envVars, logVars, rule_num, fw>>

\* Ipv4Addr::try_from(&addr) on the Addr made from ip
Ipv4FromAddr ==
    /\ conv.addr # NullAddr
    /\ conv.back = ConvIdle.back
    /\ conv' = [conv EXCEPT !.back = Ipv4Addr_try_from(conv.addr)]
    /\ UNCHANGED <<allocVars, inputVars, procVars, semVars, envVars, logVars, rule_num, fw>>

\* Ipv4Addr::try_from(&addr) on the kernel's Addr
Ipv4FromKernelAddr ==
    /\ conv.kback = ConvIdle.kback
    /\ conv' = [conv EXCEPT !.kback = Ipv4Addr_try_from(conv.kaddr)]
    /\ UNCHANGED <<allocVars, inputVars, procVars, semVars, envVars, logVars, rule_num, fw>>

NextAddr == AddrFromIpv4 \/ Ipv4FromAddr \/ Ipv4FromKernelAddr

SpecAddr == InitAddr /\ [][NextAddr]_vars

-----------------------------------------------------------------------------
(* Helpers of the allocator claims, written from the claims' words *)

Range(s) == { s[i] : i \in DOMAIN s }

\* every order the same routes can be yielded in
Reorderings(s) ==
    { [i \in DOMAIN s |-> s[p[i]]] : p \in Permutations(DOMAIN s) }

\* addr with the bits below prefix length p cleared
NetOf(addr, p) ==
    IF p >= 16 THEN <<addr[1], addr[2] - (addr[2] % Pow2(32 - p))>>
    ELSE <<addr[1] - (addr[1] % Pow2(16 - p)), 0>>

\* the address lies in 172.16.0.0 .. 172.31.255.255
InTunnelRange(addr) == addr[1] \in 44048 .. 44063

\* routes with an IPv4 destination prefix other than the default route
Prefixed(rs) == { r \in Range(rs) : r.has_dst /\ r.len = 4 /\ r.cidrlen # 0 }

\* the block base/p lies inside the destination prefix of route r
Inside(base, p, r) == r.cidrlen <= p /\ NetOf(base, r.cidrlen) = NetOf(r.addr, r.cidrlen)

\* the number of addresses of a /p block, 1 <= p <= 32
BlockSize(p) == IF p <= 16 THEN <<Pow2(16 - p), 0>> ELSE <<0, Pow2(32 - p)>>

\* every address of the block base/p lies inside some route's prefix
RECURSIVE CoveredBlock(_, _, _)
CoveredBlock(base, p, rs) ==
    \/ \E r \in Prefixed(rs) : Inside(base, p, r)
    \/ /\ p < 32
       /\ \E r \in Prefixed(rs) : r.cidrlen > p /\ NetOf(r.addr, p) = base
       /\ CoveredBlock(base, p + 1, rs)
       /\ CoveredBlock(AddU32(base, BlockSize(p + 1)).val, p + 1, rs)

\* the routes cover 172.16.0.0 through 172.31.255.255
Saturated(rs) == CoveredBlock(Ipv4(172, 16, 0, 0), 12, rs)

\* the routes a snapshot holds inside 172.16.0.0/12 are the first k /30 blocks
AdjacentBlocks(rs, k) ==
    { r \in Prefixed(rs) : InTunnelRange(r.addr) } = { Block30(i) : i \in 0 .. (k - 1) }

-----------------------------------------------------------------------------
(* Claims *)

\* C8: for an empty snapshot the allocator returns 172.16.0.0, and for a
\* snapshot whose routes inside 172.16.0.0/12 are k adjacent /30 blocks at
\* 172.16.0.0, 172.16.0.4, ... it returns 172.16.0.(4k), the first address
\* after the last block.
C8_AdjacentBlocksSkipped ==
    tunnel_net_id # Pending =>
        \A k \in 0 .. MaxRoutes :
            AdjacentBlocks(routes, k) =>
                tunnel_net_id = Alloc("ok", Ipv4(172, 16, 0, 4 * k))

C8_Witness ==
    /\ AdjacentBlocks(routes, 3)
    /\ Len(routes) = 3
    /\ tunnel_net_id = Alloc("ok", Ipv4(172, 16, 0, 12))

\* C9: the allocator succeeds only with an address whose top 12 bits are
\* those of 172.16.0.0, and it fails with NoTunnelRangeAvailable whenever the
\* snapshot's routes fully cover 172.16.0.0 through 172.31.255.252.
C9_SaturatedFails ==
    tunnel_net_id # Pending =>
        /\ tunnel_net_id.st = "ok" => InTunnelRange(tunnel_net_id.ip)
        /\ Saturated(routes) => tunnel_net_id.st = "err"

\* C10: the allocator's result is the same for every order in which the
\* snapshot yields the same routes.
C10_OrderIndependent ==
    tunnel_net_id # Pending =>
        \A rs \in Reorderings(routes) :
            find_tunnel_ip_range(rs, build) = tunnel_net_id


\* some address of the four of the block at base lies in the prefix of r
BlockOverlaps(base, r) ==
    \E i \in 0 .. 3 :
        NetOf(AddU32(base, <<0, i>>).val, r.cidrlen) = NetOf(r.addr, r.cidrlen)

\* C11: whenever the allocator succeeds, none of the four addresses of the
\* block at the returned base lies in the destination prefix of a route of
\* the snapshot that has a nonzero prefix length.
C11_BlockOverlapsNoRoute ==
    tunnel_net_id.st = "ok" =>
        \A r \in Prefixed(routes) : ~BlockOverlaps(tunnel_net_id.ip, r)

\* C12: whenever the allocator succeeds, the two low bits of the returned
\* base are zero.
C12_BaseAligned ==
    tunnel_net_id.st = "ok" => tunnel_net_id.ip[2] % 4 = 0

\* the candidate the loop holds when it comes to the i-th route in scan order
CandidateAt(rs, i, b) == Scan(Alloc("ok", Ipv4(172, 16, 0, 0)), SubSeq(rs, 1, i - 1), b)

\* C23: for every route the loop considers whose masked destination equals
\* the candidate's masked network, the loop sets the candidate to the
\* route's destination plus 2^(32 - p), p being the route's prefix length,
\* and the sum does not overflow 32 bits; for p = 32 that is the destination
\* plus 1.
C23_AdvancePastRoute ==
    tunnel_net_id # Pending =>
        LET rs == sort_by(routes) IN
        \A i \in DOMAIN rs :
            LET cur == CandidateAt(rs, i, build)
                want == AddU32(rs[i].addr, BlockSize(rs[i].cidrlen))
            IN  ( /\ cur.st = "ok"
                  /\ Considered(rs[i])
                  /\ NetOf(rs[i].addr, rs[i].cidrlen) = NetOf(cur.ip, rs[i].cidrlen) ) =>
                    /\ ~want.overflow
                    /\ LoopBody(cur, rs[i], build) = Alloc("ok", want.val)

\* a route with no destination, with prefix length 0, with a destination
\* that is no IPv4 address, or with a destination address outside
\* 172.16.0.0/12
Ignorable(r) == ~r.has_dst \/ r.cidrlen = 0 \/ r.len # 4 \/ ~InTunnelRange(r.addr)

\* the snapshot with its i-th route taken out
Without(rs, i) == SubSeq(rs, 1, i - 1) \o SubSeq(rs, i + 1, Len(rs))

\* C24: a snapshot that holds, at any place, a route that has no
\* destination, has prefix length 0, has a non-IPv4 destination or has a
\* destination address outside 172.16.0.0/12 gets the result the snapshot
\* without that route gets: taking such a route out, or putting it in,
\* leaves the allocator's result what it is.
C24_IgnorableRoutesIgnored ==
    tunnel_net_id # Pending =>
        \A i \in DOMAIN routes :
            Ignorable(routes[i]) =>
                find_tunnel_ip_range(Without(routes, i), build) = tunnel_net_id

\* a snapshot of the default route, a block inside the range and a route
\* whose destination address is outside it
C24_Witness ==
    /\ routes = <<DefaultRoute, Block30(0), RouteTo(Ipv4(172, 0, 0, 0), 8)>>
    /\ tunnel_net_id = Alloc("ok", Ipv4(172, 16, 0, 4))

\* the route has a destination that is an IPv4 address
HasV4Dst(r) == r.has_dst /\ r.len = 4

\* C25: in the order the allocator scans the routes in, the routes that have
\* an IPv4 destination come in ascending order of their destination address,
\* and no route without one comes before a route that has one.
C25_ScanOrder ==
    tunnel_net_id # Pending =>
        LET rs == sort_by(routes) IN
        \A i \in DOMAIN rs, j \in DOMAIN rs :
            i < j =>
                /\ (HasV4Dst(rs[i]) /\ HasV4Dst(rs[j])) => ~LessU32(rs[j].addr, rs[i].addr)
                /\ ~(~HasV4Dst(rs[i]) /\ HasV4Dst(rs[j]))

-----------------------------------------------------------------------------
(* Properties of the address conversions, stated for SpecAddr *)

ConvOk(value) == [st |-> "ok", ip |-> value]
ConvErr(code) == [st |-> "err", ip |-> code]
ConvPending == [st |-> "pending", ip |-> <<>>]

\* C22: an Ipv4Addr converted to an Addr and back comes out as Ok of the
\* value that went in; and the conversion of an Addr to an Ipv4Addr, be it
\* made from an Ipv4Addr or handed out by the kernel, is
\* Err(NL_AF_MISMATCH) exactly when the Addr is not 4 bytes long, and Ok of
\* its four bytes otherwise.
C22_AddrRoundTrip ==
    /\ conv.back # ConvPending => conv.back = ConvOk(conv.ip)
    /\ conv.kback # ConvPending =>
          /\ conv.kback = ConvErr("NL_AF_MISMATCH") <=> conv.kaddr.len # 4
          /\ conv.kaddr.len = 4 => conv.kback = ConvOk(conv.kaddr.bytes)

\* 172.16.0.255 has gone there and back, and a hardware address was refused
C22_Witness ==
    /\ conv.ip = <<172, 16, 0, 255>>
    /\ conv.addr = NlAddr("AF_INET", <<172, 16, 0, 255>>, 32)
    /\ conv.back = ConvOk(conv.ip)
    /\ conv.kaddr.len = 6
    /\ conv.kback = ConvErr("NL_AF_MISMATCH")

-----------------------------------------------------------------------------
(* Properties of main()'s two processes, stated for Spec *)

\* what the call logs say has happened
ChildPosted ==
    \E i \in DOMAIN logC :
        logC[i].op = "sem_post" /\ logC[i].arg = "unshare" /\ logC[i].res = "ok"
MoveSubmitted == \E i \in DOMAIN logP : logP[i].op = "link_set_ns_pid"
PeerMoved ==
    \E i \in DOMAIN logP : logP[i].op = "link_set_ns_pid" /\ logP[i].res = "ok"
ChildPassedWait ==
    \E i \in DOMAIN logC :
        logC[i].op = "sem_wait" /\ logC[i].arg = "movelink" /\ logC[i].res = "ok"
ChildConfigures == \E i \in DOMAIN logC : logC[i].obj = "pre"
CleanupAttempted(chain) ==
    \E i \in DOMAIN logP : logP[i].op = "iptables -L" /\ logP[i].arg = chain
RunTagged == \E c \in Chains : Tagged(chains[c], firewall_comment(getpid)) # {}

\* C1: whenever the parent has submitted the change that moves the peer
\* interface, the child has unshared its network namespace and posted
\* unshare_semaphore; and whenever the peer interface is in the child's
\* namespace, the child has posted.
C1_MoveAfterUnshareSignal ==
    /\ MoveSubmitted => (kernel.child_ns /\ ChildPosted)
    /\ kernel.peer_ns = "child" => ChildPosted

C1_Witness ==
    /\ kernel.peer_ns = "child"
    /\ PeerMoved
    /\ ChildPosted

\* C2: whenever the child has come back from its wait on movelink_semaphore,
\* or has made a call on the peer interface, the parent has moved the peer
\* interface into the child's namespace.
C2_ConfigureAfterMove ==
    (ChildPassedWait \/ ChildConfigures) => (PeerMoved /\ kernel.peer_ns = "child")

\* C4: once the child has terminated after a fork, the parent removes the
\* run's rules from both chains.  Stated for the states the parent cannot
\* leave by a call that works: if none of its calls has been made to fail
\* and it has no step left but a failing one, the rules are gone.
C4_RulesRemovedAfterChildExit ==
    (pcC = "exited" /\ ~faultP /\ ~ENABLED (ParentNext /\ ~faultP')) => ~RunTagged

\* C5: once the child is reaped, the parent is on its way into the cleanup
\* or has started it, whatever the child's status: it never ends past it.
C5_CleanupWhateverStatus ==
    reaped => (pcP \in {"kill", "clean_filter_list"} \/ CleanupAttempted("FORWARD"))

C5_Witness ==
    /\ reaped
    /\ exitC = 1
    /\ CleanupAttempted("FORWARD")
    /\ CleanupAttempted("POSTROUTING")

\* C6: when the parent has ended after starting the cleanup, whatever the
\* cleanup's steps came to, its result is success and the cleanup of
\* POSTROUTING was attempted too.
C6_CleanupNeverAborts ==
    (pcP = "exited" /\ CleanupAttempted("FORWARD")) =>
        (exitP = 0 /\ errP = "" /\ CleanupAttempted("POSTROUTING"))

\* the kernel-protocol calls of the setup phase
SetupCalls ==
    { "nl_connect", "get_routes", "link_add", "get_links", "link_change_up", "addr_add", "route_add" }
SetupCallFailed ==
    \E i \in DOMAIN logP : logP[i].op \in SetupCalls /\ logP[i].res = "err"
Forked == \E i \in DOMAIN logP : logP[i].op = "fork"

\* C13: once a kernel-protocol call of the setup phase has failed, the run
\* has ended with an error, fork was never called, and there is no child
\* and no namespace.
C13_SetupFailureAborts ==
    SetupCallFailed =>
        /\ pcP = "exited" /\ exitP = 1 /\ errP # ""
        /\ ~Forked
        /\ pcC = "none"
        /\ ~kernel.child_ns

\* the host route's add fails, the last kernel-protocol call before the fork
C13_Witness ==
    /\ \E i \in DOMAIN logP : logP[i].op = "route_add" /\ logP[i].res = "err"
    /\ pcP = "exited"
    /\ ~Forked

\* an invocation of the tool that installs a rule could not be launched, or
\* ran and installed nothing
InstallFailed ==
    \E i \in DOMAIN logP : logP[i].op = "iptables -A" /\ logP[i].res \in {"err", "failed"}

\* C14: once an invocation of the firewall tool that installs a rule has
\* failed, whether the tool could not be launched or ran and reported
\* failure, the run has ended with an error and fork was never called.
C14_InstallFailureAborts ==
    InstallFailed => (pcP = "exited" /\ exitP = 1 /\ ~Forked)

\* the parent is past the install of the FORWARD rule and has started no
\* cleanup, and none of its calls has been made to fail
RulesInstalled ==
    /\ ~faultP
    /\ pcP \in { "sem_init_unshare", "sem_init_movelink", "fork", "sem_wait_unshare",
                 "move_link", "sem_post_movelink", "waitpid", "kill", "clean_filter_list" }
CallsOf(op, arg) == { i \in DOMAIN logP : logP[i].op = op /\ logP[i].arg = arg }
InstallsOf(target) == { i \in DOMAIN logP : logP[i].op = "iptables -A" /\ logP[i].obj = target }
RunRules(chain) ==
    { chains[chain][i] : i \in Tagged(chains[chain], firewall_comment(getpid)) }
Parsed == pcP \notin {"root_check", "parse_args"}

\* C15: a run without a source IP never invokes an SNAT install, never
\* writes a proxy-ARP toggle and never adds a host route; it invokes the
\* MASQUERADE install and the FORWARD-accept install at most once each, and
\* once its installs are through the chains hold exactly one rule with its
\* comment each: MASQUERADE out of the external interface in POSTROUTING,
\* ACCEPT in FORWARD.
C15_MasqueradeRun ==
    (Parsed /\ args.source_ip = NoIp) =>
        /\ InstallsOf("SNAT") = {}
        /\ CallsOf("write", "all/proxy_arp") = {} /\ CallsOf("write", "if/proxy_arp") = {}
        /\ CallsOf("route_add", "host_link") = {}
        /\ procfs.proxy_arp_all = "0" /\ procfs.proxy_arp_if = "0"
        /\ kernel.host_route = NoIp
        /\ Cardinality(InstallsOf("MASQUERADE")) <= 1
        /\ Cardinality(InstallsOf("ACCEPT")) <= 1
        /\ RulesInstalled =>
              /\ Cardinality(InstallsOf("MASQUERADE")) = 1
              /\ Cardinality(InstallsOf("ACCEPT")) = 1
              /\ Cardinality(Tagged(chains["POSTROUTING"], firewall_comment(getpid))) = 1
              /\ Cardinality(Tagged(chains["FORWARD"], firewall_comment(getpid))) = 1
              /\ RunRules("POSTROUTING") =
                    { FwRule("MASQUERADE", NoIp, default_if, NoIp, firewall_comment(getpid)) }
              /\ RunRules("FORWARD") =
                    { FwRule("ACCEPT", container_tunnel_ip, "", NoIp, firewall_comment(getpid)) }

C15_Witness ==
    /\ args.source_ip = NoIp
    /\ RulesInstalled
    /\ pcP = "fork"
    /\ Cardinality(InstallsOf("MASQUERADE")) = 1
    /\ Cardinality(InstallsOf("ACCEPT")) = 1

\* C16: a run with source IP S never invokes a MASQUERADE install; once its
\* installs are through it has written each of the two proxy-ARP toggles
\* exactly once and both read "1", the host holds the route to S through the
\* host tunnel link, and the chains hold exactly one rule with its comment
\* each: SNAT from the container tunnel address to S in POSTROUTING, ACCEPT
\* in FORWARD.
C16_SnatRun ==
    (Parsed /\ args.source_ip # NoIp) =>
        /\ InstallsOf("MASQUERADE") = {}
        /\ Cardinality(InstallsOf("SNAT")) <= 1
        /\ RulesInstalled =>
              /\ Cardinality(InstallsOf("SNAT")) = 1
              /\ Cardinality(InstallsOf("ACCEPT")) = 1
              /\ Cardinality(CallsOf("write", "all/proxy_arp")) = 1
              /\ Cardinality(CallsOf("write", "if/proxy_arp")) = 1
              /\ procfs.proxy_arp_all = "1" /\ procfs.proxy_arp_if = "1"
              /\ Cardinality(CallsOf("route_add", "host_link")) = 1
              /\ kernel.host_route = args.source_ip
              /\ Cardinality(Tagged(chains["POSTROUTING"], firewall_comment(getpid))) = 1
              /\ Cardinality(Tagged(chains["FORWARD"], firewall_comment(getpid))) = 1
              /\ RunRules("POSTROUTING") =
                    { FwRule("SNAT", container_tunnel_ip, "", args.source_ip, firewall_comment(getpid)) }
              /\ RunRules("FORWARD") =
                    { FwRule("ACCEPT", container_tunnel_ip, "", NoIp, firewall_comment(getpid)) }

C16_Witness ==
    /\ args.source_ip # NoIp
    /\ RulesInstalled
    /\ pcP = "fork"
    /\ Cardinality(InstallsOf("SNAT")) = 1
    /\ kernel.host_route = args.source_ip

\* the rules of a chain that do not carry the run's comment, in their order
OtherRules(rules) == SelectSeq(rules, LAMBDA r : r.comment # firewall_comment(getpid))

\* the run has returned Ok(()) from main and every call it made has worked
CleanupCompleted == pcP = "exited" /\ exitP = 0 /\ ~faultP

\* C17: the run being the only one to act on the chains, which hold no rule
\* with its comment at the start: no step of the run removes, adds or
\* reorders a rule that does not carry its comment, and when the run has
\* completed its cleanup no rule with its comment is left, so that both
\* chains are what they were before the run.
C17_ChainsRestored ==
    /\ [][\A c \in Chains : OtherRules(chains'[c]) = OtherRules(chains[c])]_vars
    /\ [](CleanupCompleted => \A c \in Chains : chains[c] = OtherRules(chains[c]))

\* a completed run whose two deletes were made on chains holding a rule of
\* another origin
C17_Witness ==
    /\ CleanupCompleted
    /\ Cardinality(CallsOf("iptables -D", "FORWARD")) = 1
    /\ Cardinality(CallsOf("iptables -D", "POSTROUTING")) = 1
    /\ \A c \in Chains : chains[c] # <<>> /\ chains[c] = OtherRules(chains[c])

\* C18: when the effective user is not root the process takes no step but
\* the root check and ends with status 1: the only call it ever makes is
\* geteuid, no argument is parsed, the kernel, /proc and the allocator are
\* untouched and there is no child.
C18_NotRootExitsFirst ==
    euid # 0 =>
        /\ pcP \in {"root_check", "exited"}
        /\ pcP = "exited" => exitP = 1
        /\ \A i \in DOMAIN logP : logP[i].op = "geteuid"
        /\ Len(logP) <= 1
        /\ args = NoArgs
        /\ tunnel_net_id = Pending
        /\ kernel = KernelInit
        /\ procfs = ProcfsInit
        /\ pcC = "none"
        /\ OtherRules(chains["FORWARD"]) = chains["FORWARD"]
        /\ OtherRules(chains["POSTROUTING"]) = chains["POSTROUTING"]

C18_Witness ==
    /\ euid # 0
    /\ pcP = "exited"
    /\ exitP = 1
    /\ Len(logP) = 1

ForkFailed == \E i \in DOMAIN logP : logP[i].op = "fork" /\ logP[i].res = "err"
InstalledOn(chain) ==
    { i \in DOMAIN logP :
        logP[i].op = "iptables -A" /\ logP[i].arg = chain /\ logP[i].res = "ok" }

\* C19: once fork has returned a negative result the process has ended with
\* status 3 and fork is the last call it made: it has not waited for a
\* child, listed or deleted a rule, there is no child, and every rule it
\* installed is still in its chain.
C19_ForkFailureExits3 ==
    ForkFailed =>
        /\ pcP = "exited" /\ exitP = 3
        /\ logP[Len(logP)].op = "fork"
        /\ ~reaped
        /\ pcC = "none"
        /\ \A c \in Chains :
              /\ CallsOf("iptables -L", c) = {} /\ CallsOf("iptables -D", c) = {}
              /\ Cardinality(Tagged(chains[c], firewall_comment(getpid))) =
                    Cardinality(InstalledOn(c))

C19_Witness ==
    /\ ForkFailed
    /\ exitP = 3
    /\ \A c \in Chains : Cardinality(Tagged(chains[c], firewall_comment(getpid))) = 1

UnshareFailed == \E i \in DOMAIN logC : logC[i].op = "unshare" /\ logC[i].res = "err"

\* C20: once the child's unshare has failed the child has exited with
\* status 2 and unshare is the last call it made: it has posted and waited
\* on no semaphore, made no call to the kernel and no execve, and both the
\* count of unshare_semaphore and the kernel are as the fork left them.
C20_UnshareFailureExits2 ==
    UnshareFailed =>
        /\ pcC = "exited" /\ exitC = 2
        /\ logC[Len(logC)].op = "unshare"
        /\ \A i \in DOMAIN logC : logC[i].op \in {"nl_close", "unshare"}
        /\ unshare_semaphore = UnshareInitial
        /\ ~kernel.child_ns
        /\ kernel.peer_ns = "host"
        /\ ~kernel.lo_up /\ ~kernel.peer_up
        /\ kernel.peer_addr = NoIp /\ kernel.child_gw = NoIp

C20_Witness ==
    /\ UnshareFailed
    /\ exitC = 2
    /\ pcP = "sem_wait_unshare"

KillCalls == { i \in DOMAIN logP : logP[i].op = "kill" }

\* C21: the parent signals the child's pid only while the child is alive:
\* every kill it has made found the child running, and once waitpid has
\* reaped the child it has made no kill.
C21_KillOnlyWhileAlive ==
    /\ \A i \in KillCalls : logP[i].arg = "alive"
    /\ reaped => KillCalls = {}

\* C26: every request the child makes after the fork goes through the
\* connection it opened after its unshare, and acts on an object taken from
\* the snapshot it fetched through that connection: apart from closing the
\* inherited connection, no call of the child names the inherited connection
\* or a link handle of the snapshot made before the fork.
C26_ChildUsesOwnObjects ==
    \A i \in DOMAIN logC :
        logC[i].op # "nl_close" => (logC[i].sock # "pre" /\ logC[i].obj # "pre")

\* C27: both semaphores are binary: once initialised, the count of
\* unshare_semaphore and the count of movelink_semaphore is 0 or 1 in every
\* state of the run (-1 stands for a semaphore before its sem_init).
C27_SemaphoresBinary ==
    /\ unshare_semaphore \in {-1, 0, 1}
    /\ movelink_semaphore \in {-1, 0, 1}

\* the steps main() is to have completed before the fork, in their order
Step(op, arg) == [op |-> op, arg |-> arg]
PreForkSteps ==
    <<Step("link_add", "veth"), Step("link_change_up", "host_link"),
      Step("addr_add", "host_link"), Step("default_if", ""), Step("write", "ip_forward"),
      Step("iptables -A", "POSTROUTING")>>
    \o (IF args.source_ip = NoIp THEN <<>>
        ELSE <<Step("write", "all/proxy_arp"), Step("write", "if/proxy_arp"),
               Step("route_add", "host_link")>>)
    \o <<Step("iptables -A", "FORWARD")>>

\* where in the parent's log a step was made and did what it was made for
DoneAt(s) ==
    { i \in DOMAIN logP : logP[i].op = s.op /\ logP[i].arg = s.arg /\ logP[i].res = "ok" }

\* C28: when fork is called, each pre-fork step has been made and has done
\* what it was made for, each after the one before it: the veth pair, the
\* host link up, the host tunnel address, the external interface, IP
\* forwarding, the NAT rule (with a source IP also the two proxy-ARP toggles
\* and the host route), the FORWARD-accept rule.  And a listing of the
\* cleanup is made only when waitpid has returned.
C28_ForkAfterSetupCleanupAfterWait ==
    /\ \A f \in DOMAIN logP :
          logP[f].op = "fork" =>
              \A k \in DOMAIN PreForkSteps :
                  /\ DoneAt(PreForkSteps[k]) # {}
                  /\ \A i \in DoneAt(PreForkSteps[k]) :
                        /\ i < f
                        /\ k > 1 => \E j \in DoneAt(PreForkSteps[k - 1]) : j < i
    /\ \A c \in Chains : CleanupAttempted(c) => reaped

\* the steps the child is to have completed before execve, in their order
ChildSteps ==
    <<Step("link_change_up", "lo"), Step("link_change_up", "container_link"),
      Step("addr_add", "container_link"), Step("route_add", "container_link")>>
ChildCalls(s) == { i \in DOMAIN logC : logC[i].op = s.op /\ logC[i].arg = s.arg }
ExecCalls == { i \in DOMAIN logC : logC[i].op = "execve" }

\* C29: when the child calls execve it has brought lo up, brought the peer
\* interface up, given it the container tunnel address and added the
\* default route through the host tunnel address, each with one call that
\* worked and in this order; and when one of these calls has failed it is
\* the last call the child made: the child has exited with an error, having
\* made that call once and execve never.
C29_ExecAfterConfiguration ==
    /\ \A e \in ExecCalls :
          /\ \A k \in DOMAIN ChildSteps :
                /\ Cardinality(ChildCalls(ChildSteps[k])) = 1
                /\ \A i \in ChildCalls(ChildSteps[k]) :
                      /\ logC[i].res = "ok"
                      /\ i < e
                      /\ k > 1 => \A j \in ChildCalls(ChildSteps[k - 1]) : j < i
          /\ kernel.lo_up /\ kernel.peer_up
          /\ kernel.peer_addr = container_tunnel_ip
          /\ kernel.child_gw = host_tunnel_ip
    /\ \A k \in DOMAIN ChildSteps :
          \A i \in ChildCalls(ChildSteps[k]) :
              logC[i].res # "ok" =>
                  /\ i = Len(logC)
                  /\ pcC = "exited" /\ exitC = 1
                  /\ ExecCalls = {}
                  /\ Cardinality(ChildCalls(ChildSteps[k])) = 1

\* the program runs in the configured namespace
C29_Witness ==
    /\ pcC = "running"
    /\ ExecCalls # {}
    /\ kernel.lo_up /\ kernel.peer_up
    /\ kernel.child_gw = host_tunnel_ip

\* the n-th address after the allocated base
BasePlus(n) == AddU32(tunnel_net_id.ip, <<0, n>>).val

\* C30: B being the base the allocator returned: the address the host link
\* holds is B+1/30 with broadcast B+3, the address the peer link holds is
\* B+2/30 with broadcast B+3, the gateway of the child's default route is
\* B+1, and every SNAT or ACCEPT rule with the run's comment matches source
\* B+2.
C30_AddressesFromBase ==
    /\ kernel.host_addr # NoIp =>
          /\ kernel.host_addr = BasePlus(1)
          /\ kernel.host_prefixlen = 30
          /\ kernel.host_brd = BasePlus(3)
    /\ kernel.peer_addr # NoIp =>
          /\ kernel.peer_addr = BasePlus(2)
          /\ kernel.peer_prefixlen = 30
          /\ kernel.peer_brd = BasePlus(3)
    /\ kernel.child_gw # NoIp => kernel.child_gw = BasePlus(1)
    /\ \A c \in Chains :
          \A r \in RunRules(c) : r.target \in {"SNAT", "ACCEPT"} => r.src = BasePlus(2)

\* a run with a source IP on the base 172.16.0.4, its child configured and
\* both of its rules in the chains
C30_Witness ==
    /\ tunnel_net_id = Alloc("ok", Ipv4(172, 16, 0, 4))
    /\ kernel.host_addr = Ipv4(172, 16, 0, 5)
    /\ kernel.peer_addr = Ipv4(172, 16, 0, 6)
    /\ kernel.peer_brd = Ipv4(172, 16, 0, 7)
    /\ kernel.child_gw = Ipv4(172, 16, 0, 5)
    /\ \E r \in RunRules("POSTROUTING") : r.target = "SNAT" /\ r.src = Ipv4(172, 16, 0, 6)
    /\ \E r \in RunRules("FORWARD") : r.src = Ipv4(172, 16, 0, 6)

\* the toggle a write of the log names
ToggleOf(arg) ==
    CASE arg = "ip_forward"    -> "ip_forward"
      [] arg = "all/proxy_arp" -> "proxy_arp_all"
      [] arg = "if/proxy_arp"  -> "proxy_arp_if"

\* C33: a step changes a toggle only to "1", and a toggle that reads "1" is
\* left reading "1" by every step; the proxy-ARP toggles are written in a run
\* with a source IP only; so a toggle the run has written with success
\* reads "1" at every later state, the state it exits in included, through
\* the cleanup or through an error.
C33_TogglesStayEnabled ==
    /\ [][\A k \in DOMAIN procfs :
            /\ procfs'[k] # procfs[k] => procfs'[k] = "1"
            /\ procfs[k] = "1" => procfs'[k] = "1"]_vars
    /\ [](\A i \in DOMAIN logP :
            (logP[i].op = "write" /\ logP[i].res = "ok") => procfs[ToggleOf(logP[i].arg)] = "1")
    /\ [](\A k \in {"proxy_arp_all", "proxy_arp_if"} :
            procfs[k] = "1" => (Parsed /\ args.source_ip # NoIp))

\* a run with a source IP has gone through the cleanup and has returned,
\* the three toggles reading "1"
C33_Witness ==
    /\ pcP = "exited"
    /\ exitP = 0
    /\ CleanupAttempted("POSTROUTING")
    /\ args.source_ip # NoIp
    /\ \A k \in DOMAIN procfs : procfs[k] = "1"

FlagWords == {"-s", "--source-ip"}
DottedQuad(word) == word = "203.0.113.5"

\* the place of the command word: the flags and their values come in pairs
\* from the first word on, the command word is the first word in the place
\* of a flag that is none; 0 when there is no such word
CommandAt(av) ==
    LET first == { k \in DOMAIN av : k % 2 = 1 /\ av[k] \notin FlagWords }
    IN  IF first = {} THEN 0 ELSE CHOOSE k \in first : \A j \in first : k <= j

\* the places of the well-formed values of the flags before the command word
GoodValues(av) ==
    { i \in DOMAIN av :
        /\ i % 2 = 0
        /\ CommandAt(av) = 0 \/ i < CommandAt(av)
        /\ av[i - 1] \in FlagWords
        /\ DottedQuad(av[i]) }

\* the places of the flags before the command word that have no value or a
\* malformed one
BadFlags(av) ==
    { i \in DOMAIN av :
        /\ i % 2 = 1
        /\ CommandAt(av) = 0 \/ i < CommandAt(av)
        /\ (i + 1) \in DOMAIN av => ~DottedQuad(av[i + 1]) }

\* C34: parse_args never fails, whatever the words, and prints one line for
\* each flag with a malformed value or none; the run has a source IP
\* exactly when a flag before the command word has a well-formed value, so a
\* flag with a malformed value, a flag with no value and a flag after the
\* command word leave it without one, and the run installs no SNAT rule; the
\* command is the first word that is neither a flag nor a flag's value,
\* following a malformed value or not, with all the words after it, flags
\* included, as its arguments, and /bin/sh alone when there is no such word.
C34_BadSourceIpIgnored ==
    /\ \A i \in DOMAIN logP :
          logP[i].op = "parse_args" =>
              /\ logP[i].res = "ok"
              /\ i < Len(logP) \/ pcP = "socket_new"
              /\ Len(logP[i].obj) = Cardinality(BadFlags(argv))
    /\ CallsOf("parse_args", "") # {} =>
          /\ (args.source_ip = NoIp) = (GoodValues(argv) = {})
          /\ \A i \in GoodValues(argv) : args.source_ip = Ipv4(203, 0, 113, 5)
          /\ GoodValues(argv) = {} => InstallsOf("SNAT") = {}
          /\ IF CommandAt(argv) = 0
             THEN args.program = "/bin/sh" /\ args.program_args = <<"/bin/sh">>
             ELSE /\ args.program = argv[CommandAt(argv)]
                  /\ args.program_args = SubSeq(argv, CommandAt(argv), Len(argv))

\* runs with a malformed value, with no value and with the flag after the
\* command word have each installed the MASQUERADE rule
C34_Witness ==
    /\ argv \in {<<"-s", "bogus", "curl">>, <<"-s">>, <<"curl", "-s", "203.0.113.5">>}
    /\ args.source_ip = NoIp
    /\ args.program = (IF argv = <<"-s">> THEN "/bin/sh" ELSE "curl")
    /\ InstallsOf("MASQUERADE") # {}

ForkSucceeded == \E i \in DOMAIN logP : logP[i].op = "fork" /\ logP[i].res = "ok"

\* C35: when the parent has exited after a fork that succeeded, the child
\* has exited and the parent has waited for it.
C35_ParentOutlivesChild ==
    (pcP = "exited" /\ ForkSucceeded) => (pcC = "exited" /\ reaped)

\* C36: when the parent has exited without having come to the fork, no chain
\* holds a rule with the run's comment.
C36_AbortLeavesNoRule ==
    (pcP = "exited" /\ ~Forked) => ~RunTagged

FirewallOps == {"iptables -A", "iptables -L", "iptables -D"}
ChildEnds == { i \in DOMAIN logC : logC[i].res # "ok" }

\* C37: the child makes no call of the firewall tool, on none of its paths:
\* a call of the child that fails is the last call it makes, and it has
\* exited then; a step that changes a chain is a step of the parent and adds
\* to the parent's log alone; and the parent makes at most one delete for
\* each chain, which are all the deletes of the run.
C37_OnlyParentCleansUp ==
    /\ [](\A i \in DOMAIN logC : logC[i].op \notin FirewallOps)
    /\ [](\A i \in ChildEnds : i = Len(logC) /\ pcC = "exited")
    /\ [][chains' # chains => (logC' = logC /\ pcC' = pcC /\ Len(logP') = Len(logP) + 1)]_vars
    /\ [](\A c \in Chains : Cardinality(CallsOf("iptables -D", c)) <= 1)

\* the child's execve has failed, and the parent has gone through the
\* cleanup with one delete for each chain
C37_Witness ==
    /\ \E i \in DOMAIN logC : logC[i].op = "execve" /\ logC[i].res = "err"
    /\ pcP = "exited"
    /\ exitP = 0
    /\ \A c \in Chains : Cardinality(CallsOf("iptables -D", c)) = 1

-----------------------------------------------------------------------------
(* Properties of the firewall steps of two runs, stated for SpecFw *)

NumTagged(rules, p) == Cardinality(Tagged(rules, firewall_comment(p)))
Untouched(p) == fw[p] = FwRun("nat_rule")

-----------------------------------------------------------------------------
(* Properties of the firewall steps on chains with leftovers, stated for   *)
(* SpecFwLeft                                                               *)

\* the first rule of the chain that carries the run's comment, 0 for none
FirstTagged(rules, p) ==
    LET own == Tagged(rules, firewall_comment(p))
    IN  IF own = {} THEN 0 ELSE CHOOSE i \in own : \A j \in own : i <= j

\* C31: the listing step of a cleanup picks the number of the first rule of
\* the chain that carries the run's comment; the delete step removes the one
\* rule that has this number then, or nothing, so that the chain loses at
\* most one rule and at most one of the run's comment and the other chain
\* none; and one pass through the cleanup comes to at most one delete for
\* each chain.
C31_OneDeletePerChain ==
    /\ [][\A p \in RunPids, c \in Chains :
            /\ FwList(p, c) =>
                  /\ (FirstTagged(chains[c], p) # 0) = (fw'[p].pc = "delete_" \o c)
                  /\ fw'[p].pc = "delete_" \o c => fw'[p].rule_num = FirstTagged(chains[c], p)
            /\ FwDelete(p, c) =>
                  /\ chains'[c] \in
                        {chains[c]} \cup
                        { SubSeq(chains[c], 1, n - 1) \o SubSeq(chains[c], n + 1, Len(chains[c])) :
                              n \in {fw[p].rule_num} \cap DOMAIN chains[c] }
                  /\ Len(chains'[c]) >= Len(chains[c]) - 1
                  /\ NumTagged(chains'[c], p) >= NumTagged(chains[c], p) - 1
                  /\ \A d \in Chains \ {c} : chains'[d] = chains[d]
                  /\ fw'[p].deleted = fw[p].deleted + 1]_vars
    /\ [](\A p \in RunPids :
            /\ fw[p].deleted <= 2
            /\ fw[p].pc \in {"list_FORWARD", "delete_FORWARD"} => fw[p].deleted = 0
            /\ fw[p].pc \in {"list_POSTROUTING", "delete_POSTROUTING"} => fw[p].deleted <= 1)

\* a run, the other not having acted, has deleted from FORWARD once, and
\* FORWARD still holds a rule of its comment
C31_Witness ==
    \E p \in RunPids :
        /\ \A q \in RunPids \ {p} : Untouched(q)
        /\ fw[p].round = 1
        /\ fw[p].pc = "list_POSTROUTING"
        /\ fw[p].deleted = 1
        /\ NumTagged(chains["FORWARD"], p) >= 1

\* C32: a line of the listing matches the pattern of a run's comment exactly
\* when the rule it lists has that very comment; so the rule a listing step
\* picks has the run's comment, and no rule with the comment of another
\* process id, its digits beginning or ending the run's or not, is picked.
C32_MatcherExact ==
    /\ [](\A p \in RunPids, c \in Chains : \A i \in DOMAIN chains[c] :
            Contains(ListOutput(c, chains[c])[i + 2], CommentPattern(firewall_comment(p)))
                <=> chains[c][i].comment = firewall_comment(p))
    /\ [][\A p \in RunPids, c \in Chains :
            (FwList(p, c) /\ fw'[p].pc = "delete_" \o c) =>
                /\ fw'[p].rule_num \in DOMAIN chains[c]
                /\ chains[c][fw'[p].rule_num].comment = firewall_comment(p)]_vars

\* a listing step has picked the second rule of FORWARD, the first being one
\* an earlier run of the other process id has left
C32_Witness ==
    \E p \in RunPids : \E q \in RunPids \ {p} :
        /\ Untouched(q)
        /\ fw[p].pc = "delete_FORWARD"
        /\ fw[p].rule_num = 2
        /\ chains["FORWARD"][1] = LeftoverRule(q)

=============================================================================
